---- MODULE Spec2Model ----
(***************************************************************************)
(* Verification model of the time-shaper feature-extraction engine.        *)
(*                                                                         *)
(*  Part I   TimeShaperProcessor (AudioWorklet streaming accumulator).     *)
(*  Part II  BaseService lifecycle with the VideoEngine / AudioEngine      *)
(*           single-flight processing queue.                               *)
(*                                                                         *)
(* Rational numbers are carried as pairs <<numerator, denominator>>.       *)
(***************************************************************************)
EXTENDS Integers, Sequences, FiniteSets, TLC

(***************************************************************************)
(* Bounds                                                                  *)
(***************************************************************************)
\* length of the accumulator buffer (2048 in the source, part_000:9)
BufSize == 2
\* largest chunk handed to one process() call (128 in a browser)
MaxChunk == 4
\* total number of samples fed to the processor in one behaviour
MaxSamples == 4
\* number of control messages handled by the processor in one behaviour
MaxCtl == 1
\* analyze calls made on the engine in one behaviour
MaxRequests == 3
\* lifecycle calls that may be suspended at an await at the same time
MaxPending == 1
\* frames taken by extractFrames (30 in the source, part_003:79)
FrameCount == 2
\* longest frame sequence handed to analyzeScenes
MaxFrames == 4
\* pixels of a frame handed to analyzeScenes
ScenePixels == 1
\* longest video duration handed to analyzeScenes, in whole time units
MaxDuration == 2
\* longest list of onsets handed to estimateTempo
MaxOnsets == 4
\* pixels of a frame given to analyzeColor
ColorPixels == 5
\* longest sequence of frames given to analyzeColor
MaxColorFrames == 5
\* width and height of a frame given to the quality assessor
QualityWidth == 3
QualityHeight == 3

\* largest numerator of the averages given to the mood mapping
MaxMood == 24
\* lifecycle calls made on a service after its construction
MaxSvcCalls == 2
\* listener functions of the model
MaxListeners == 2
\* calls of on and off made on a service
MaxOns == 2
\* extractThumbnails calls made on a VideoEngine
MaxThumbs == 1
\* thumbnails one extractThumbnails call draws (its count argument)
ThumbCount == 2
\* sample values of the model; both signs occur so that zero crossings and
\* changes of the spectrum happen
Samples == {-1, 1}

\* the AudioWorkletGlobalScope's sampleRate, the divisor of every timestamp
SampleRate == 4

Abs(x) == IF x < 0 THEN -x ELSE x

RECURSIVE SumFn(_, _)
\* sum of f[0] .. f[n-1]
SumFn(f, n) == IF n = 0 THEN 0 ELSE f[n - 1] + SumFn(f, n - 1)

\* a / b as a pair
Rat(a, b) == <<a, b>>
\* equality of two rationals with positive denominators
RatEq(p, q) == p[1] * q[2] = q[1] * p[2]
\* p + q and p - q for two rationals
RatAdd(p, q) == Rat(p[1] * q[2] + q[1] * p[2], p[2] * q[2])
RatSub(p, q) == Rat(p[1] * q[2] - q[1] * p[2], p[2] * q[2])
\* p < q for two rationals with positive denominators
RatLess(p, q) == p[1] * q[2] < q[1] * p[2]

(***************************************************************************)
(* Part I.  TimeShaperProcessor                                            *)
(***************************************************************************)
VARIABLES
    bufferSize,     \* this.bufferSize
    buffer,         \* this.buffer, a Float32Array of fixed length BufSize
    bufferIndex,    \* this.bufferIndex
    frameCount,     \* this.frameCount
    prevSpectrum,   \* this.prevSpectrum (NoSpectrum = undefined)
    analysisActive, \* this.analysisActive
    port,           \* messages posted on this.port, oldest first
    \* history variables
    nSamples,       \* samples consumed by processAudioData so far
    nCtl,           \* control messages handled so far
    nSetParams,     \* set-parameters messages handled so far
    fillSpectra,    \* spectrum of the buffer at each fill, oldest first
    fillSamples,    \* value of nSamples at each fill, oldest first
    lastParams      \* data of the set-parameters message handled last

procVars == <<bufferSize, buffer, bufferIndex, frameCount, prevSpectrum,
              analysisActive, port, nSamples, nCtl, nSetParams,
              fillSpectra, fillSamples, lastParams>>

\* The engine (Part II) lives in the main thread beside the processor.
VARIABLES
    kind,               \* "video" (VideoEngine) or "audio" (AudioEngine)
    isInitialized,      \* BaseService.isInitialized
    isStarted,          \* BaseService.isStarted
    canvas,             \* VideoEngine.canvas is set
    ctx,                \* VideoEngine.ctx is set (getContext returned one)
    audioContext,       \* AudioEngine.audioContext: "none" or its state
    workletNode,        \* AudioEngine.workletNode is set
    workletModuleLoaded,\* AudioEngine.workletModuleLoaded
    processingQueue,    \* ids of the requests in processingQueue
    isProcessing,       \* the single-flight flag
    calls,              \* lifecycle calls that are suspended at an await
    reqs,               \* analyze calls made so far, with their progress
    startedLog,         \* requests of the analysis-started events emitted,
                        \* oldest first
    lifeEvent,          \* the lifecycle event emitted last
    enqueued,           \* history: ids pushed on processingQueue, in order
    lastStartBy,        \* history: the caller of the processQueue that
                        \* started the latest request, "analyze" or "finally"
    canvasSize,         \* VideoEngine.canvas.width and height
    thumbs              \* extractThumbnails calls made so far, with their
                        \* progress

engVars == <<kind, isInitialized, isStarted, canvas, ctx, audioContext,
             workletNode, workletModuleLoaded, processingQueue, isProcessing,
             calls, reqs, startedLog, lifeEvent, enqueued, lastStartBy,
             canvasSize, thumbs>>

\* A call of one of the engines' analysis functions, which read their
\* arguments only.
VARIABLES
    fnCall,     \* the function called and its arguments, Nothing before
    fnResult    \* what the call returned, Nothing before

fnVars == <<fnCall, fnResult>>

\* no call was made, nothing was returned
Nothing == <<>>
NoCall == fnCall = Nothing /\ fnResult = Nothing

\* The listeners of a BaseService and the history of what it did with them.
VARIABLES
    listeners,  \* BaseService.listeners: for each event type the listeners
                \* registered for it, in the order a Set keeps them
    lastEmit,   \* history: the last call of emit and the listeners it invoked
    outcome,    \* history: how the lifecycle call that ended last ended
    hist        \* history: counts of doInit runs, events and calls

svcVars == <<listeners, lastEmit, outcome, hist>>

\* the event types of the lifecycle, and the key of the listeners of all
ListenTypes == {"initialized", "started", "stopped", "destroyed", "error", "*"}
\* new Map(): no listener for any type
NoListeners == [type \in ListenTypes |-> <<>>]
\* emit was not called yet; no lifecycle call ended yet
NoEmit == [type |-> "", stage |-> "", invoked |-> <<>>, escaped |-> FALSE,
           destroys |-> 0, tick |-> 0]
NoOutcome == [op |-> "", result |-> "", hook |-> "", event |-> NoEmit,
              before |-> <<FALSE, FALSE>>, atThrow |-> <<FALSE, FALSE>>,
              after |-> <<FALSE, FALSE>>]
NoHist == [doInit |-> 0, initialized |-> 0, destroys |-> 0, calls |-> 0,
           ons |-> 0]
\* a service as constructed: no listener, nothing emitted, nothing counted
NoService ==
    /\ listeners = NoListeners
    /\ lastEmit = NoEmit
    /\ outcome = NoOutcome
    /\ hist = NoHist

\* this.prevSpectrum before the first fill: undefined
NoSpectrum == [defined |-> FALSE, bins |-> <<>>]
\* a spectrum array held in a field
Held(s) == [defined |-> TRUE, bins |-> s]
\* marks a field that a set-parameters message does not carry
NoValue == 0 - 1

\* computeMagnitudeSpectrum: bins k = 0 .. N/2 - 1 of the direct DFT.  The
\* result array has floor(N / 2) slots (new Float32Array(N / 2)); a store to
\* a slot past its end is dropped.  Bin 0 has angle 0 for every n, so
\* real = sum of the samples and imag = 0, i.e. |sum|.  The model keeps
\* N <= 3, where bin 0 is the only slot; larger N needs sqrt and cos/sin.
\* Slot k of the array is element k + 1 of the sequence.
computeMagnitudeSpectrum(buf, N) ==
    [k \in 1..(N \div 2) |-> Abs(SumFn(buf, N))]

\* sum of the elements of a sequence
SumSeq(s) == SumFn([i \in 0..(Len(s) - 1) |-> s[i + 1]], Len(s))

\* sum over the bins of the positive part of cur - prev (part_000:125-131)
PositiveDiffSum(cur, prev) ==
    SumSeq([k \in DOMAIN cur |->
              IF cur[k] - prev[k] > 0 THEN cur[k] - prev[k] ELSE 0])

\* computeSpectralFlux that keeps the stored spectrum once it is set
computeSpectralFlux_keepsFirst(buf, N, prev) ==
    LET spectrum == computeMagnitudeSpectrum(buf, N) IN
    IF ~prev.defined
    THEN <<Rat(0, 1), Held(spectrum)>>
    ELSE <<Rat(PositiveDiffSum(spectrum, prev.bins), Len(spectrum)), prev>>

\* computeSpectralFlux: <<returned flux, new this.prevSpectrum>>
computeSpectralFlux(buf, N, prev) ==
    LET spectrum == computeMagnitudeSpectrum(buf, N) IN
    IF ~prev.defined
    THEN <<Rat(0, 1), Held(spectrum)>>
    ELSE <<Rat(PositiveDiffSum(spectrum, prev.bins), Len(spectrum)),
           Held(spectrum)>>

\* computeZeroCrossingRate: crossings / buffer.length
computeZeroCrossingRate(buf, N) ==
    Rat(Cardinality({i \in 1..(N - 1) : (buf[i] >= 0) # (buf[i - 1] >= 0)}), N)

\* computeRMS returns sqrt(sum of squares / length); the model carries the
\* radicand
computeRMSRadicand(buf, N) == Rat(SumFn([i \in 0..(N - 1) |-> buf[i] * buf[i]], N), N)

\* computeSpectralCentroid: sum(i * s[i]) / sum(s[i]), 0 when the sum is 0
computeSpectralCentroid(buf, N) ==
    LET s == computeMagnitudeSpectrum(buf, N)
        num == SumSeq([k \in DOMAIN s |-> (k - 1) * s[k]])
        den == SumSeq(s)
    IN IF den > 0 THEN Rat(num, den) ELSE Rat(0, 1)

\* extractFeatures: <<features, new this.prevSpectrum>>
extractFeatures(buf, N, prev) ==
    LET fl == computeSpectralFlux(buf, N, prev) IN
    <<[rmsRadicand |-> computeRMSRadicand(buf, N),
       zcr |-> computeZeroCrossingRate(buf, N),
       spectralCentroid |-> computeSpectralCentroid(buf, N),
       spectralFlux |-> fl[1]],
      fl[2]>>

\* the timestamp analyzeBuffer puts on a features message
FillTimestamp(fc, bs) == Rat(fc * bs, SampleRate)

\* analyzeBuffer on processor state st: one features message is posted
analyzeBuffer(st) ==
    LET ef == extractFeatures(st.buffer, BufSize, st.prevSpectrum) IN
    [st EXCEPT
       !.prevSpectrum = ef[2],
       !.port = Append(@, [type |-> "features",
                           features |-> ef[1],
                           timestamp |-> FillTimestamp(st.frameCount, st.bufferSize)]),
       !.fillSpectra = Append(@, computeMagnitudeSpectrum(st.buffer, BufSize)),
       !.fillSamples = Append(@, st.nSamples)]

\* PushSample that fills one sample late (> for >=)
PushSample_late(st, x) ==
    LET stored == [st EXCEPT
                     !.buffer = IF st.bufferIndex \in DOMAIN st.buffer
                                THEN [@ EXCEPT ![st.bufferIndex] = x] ELSE @,
                     !.bufferIndex = @ + 1,
                     !.nSamples = @ + 1]
    IN IF stored.bufferIndex > stored.bufferSize
       THEN [analyzeBuffer(stored) EXCEPT !.bufferIndex = 0]
       ELSE stored

\* one iteration of the loop of processAudioData for sample x
PushSample(st, x) ==
    LET stored == [st EXCEPT
                     \* a typed array drops a store past its end
                     !.buffer = IF st.bufferIndex \in DOMAIN st.buffer
                                THEN [@ EXCEPT ![st.bufferIndex] = x] ELSE @,
                     !.bufferIndex = @ + 1,
                     !.nSamples = @ + 1]
    IN IF stored.bufferIndex >= stored.bufferSize
       THEN [analyzeBuffer(stored) EXCEPT !.bufferIndex = 0]
       ELSE stored

RECURSIVE PushAll(_, _)
PushAll(st, chunk) ==
    IF chunk = <<>> THEN st ELSE PushAll(PushSample(st, Head(chunk)), Tail(chunk))

\* processAudioData: the loop, then this.frameCount++
processAudioData(st, chunk) ==
    [PushAll(st, chunk) EXCEPT !.frameCount = @ + 1]

ProcState ==
    [bufferSize |-> bufferSize, buffer |-> buffer, bufferIndex |-> bufferIndex,
     frameCount |-> frameCount, prevSpectrum |-> prevSpectrum, port |-> port,
     nSamples |-> nSamples, fillSpectra |-> fillSpectra,
     fillSamples |-> fillSamples]

Chunks == UNION {[1..n -> Samples] : n \in 1..MaxChunk}

\* process(inputs, outputs): passthrough copy, then processAudioData
Process(chunk) ==
    /\ nSamples + Len(chunk) <= MaxSamples
    /\ LET st == processAudioData(ProcState, chunk) IN
         /\ bufferSize' = st.bufferSize
         /\ buffer' = st.buffer
         /\ bufferIndex' = st.bufferIndex
         /\ frameCount' = st.frameCount
         /\ prevSpectrum' = st.prevSpectrum
         /\ port' = st.port
         /\ nSamples' = st.nSamples
         /\ fillSpectra' = st.fillSpectra
         /\ fillSamples' = st.fillSamples
    /\ UNCHANGED <<analysisActive, nCtl, nSetParams, lastParams>>
    /\ UNCHANGED <<engVars, fnVars, svcVars>>

\* handleMessage 'start-analysis'
StartAnalysis ==
    /\ nCtl < MaxCtl
    /\ nCtl' = nCtl + 1
    /\ analysisActive' = TRUE
    /\ port' = Append(port, [type |-> "analysis-started"])
    /\ UNCHANGED <<bufferSize, buffer, bufferIndex, frameCount, prevSpectrum,
                   nSamples, nSetParams, fillSpectra, fillSamples, lastParams>>
    /\ UNCHANGED <<engVars, fnVars, svcVars>>

\* handleMessage 'stop-analysis'
StopAnalysis ==
    /\ nCtl < MaxCtl
    /\ nCtl' = nCtl + 1
    /\ analysisActive' = FALSE
    /\ port' = Append(port, [type |-> "analysis-stopped"])
    /\ UNCHANGED <<bufferSize, buffer, bufferIndex, frameCount, prevSpectrum,
                   nSamples, nSetParams, fillSpectra, fillSamples, lastParams>>
    /\ UNCHANGED <<engVars, fnVars, svcVars>>

\* the data of a set-parameters message: each field is a value or absent
ParamData ==
    [bufferSize : {NoValue, 1, BufSize + 1},
     bufferIndex : {NoValue, 0, BufSize},
     frameCount : {NoValue, 0}]

\* Object.assign that skips a value that is not positive
Assigned_positive(old, new) == IF new = NoValue \/ new <= 0 THEN old ELSE new

\* Object.assign(this, parameters) for one field
Assigned(old, new) == IF new = NoValue THEN old ELSE new

\* handleMessage 'set-parameters': setParameters
SetParameters(data) ==
    /\ nCtl < MaxCtl
    /\ nCtl' = nCtl + 1
    /\ nSetParams' = nSetParams + 1
    /\ lastParams' = data
    /\ bufferSize' = Assigned(bufferSize, data.bufferSize)
    /\ bufferIndex' = Assigned(bufferIndex, data.bufferIndex)
    /\ frameCount' = Assigned(frameCount, data.frameCount)
    /\ UNCHANGED <<buffer, prevSpectrum, analysisActive, port, nSamples,
                   fillSpectra, fillSamples>>
    /\ UNCHANGED <<engVars, fnVars, svcVars>>

InitProc ==
    /\ bufferSize = BufSize
    /\ buffer = [i \in 0..(BufSize - 1) |-> 0]
    /\ bufferIndex = 0
    /\ frameCount = 0
    /\ prevSpectrum = NoSpectrum
    /\ analysisActive = FALSE
    /\ port = <<>>
    /\ nSamples = 0
    /\ nCtl = 0
    /\ nSetParams = 0
    /\ fillSpectra = <<>>
    /\ fillSamples = <<>>
    /\ lastParams = [bufferSize |-> NoValue, bufferIndex |-> NoValue,
                     frameCount |-> NoValue]

NextProc ==
    \/ \E chunk \in Chunks : Process(chunk)
    \/ StartAnalysis
    \/ StopAnalysis
    \/ \E data \in ParamData : SetParameters(data)

\* the features messages on the port, oldest first
FeatureMsgs == SelectSeq(port, LAMBDA m : m.type = "features")

(***************************************************************************)
(* Part II.  BaseService lifecycle, VideoEngine and AudioEngine queue      *)
(*                                                                         *)
(* JavaScript runs each piece of code to its next await without            *)
(* interruption, so one action is one such piece: the synchronous part of  *)
(* a call, or the continuation that runs when an awaited promise or a      *)
(* media event arrives.  The engine state is handled as a record s; every  *)
(* helper maps a record to the record after the code it models.            *)
(***************************************************************************)
EngState ==
    [kind |-> kind, isInitialized |-> isInitialized, isStarted |-> isStarted,
     canvas |-> canvas, ctx |-> ctx, audioContext |-> audioContext,
     workletNode |-> workletNode, workletModuleLoaded |-> workletModuleLoaded,
     processingQueue |-> processingQueue, isProcessing |-> isProcessing,
     calls |-> calls, reqs |-> reqs, startedLog |-> startedLog,
     lifeEvent |-> lifeEvent, enqueued |-> enqueued,
     lastStartBy |-> lastStartBy, canvasSize |-> canvasSize,
     thumbs |-> thumbs]

\* the next state of the engine is the record s; the processor, which runs
\* in the audio rendering thread, is left as it is
Becomes(s) ==
    /\ UNCHANGED <<procVars, fnVars, svcVars>>
    /\ kind' = s.kind
    /\ isInitialized' = s.isInitialized
    /\ isStarted' = s.isStarted
    /\ canvas' = s.canvas
    /\ ctx' = s.ctx
    /\ audioContext' = s.audioContext
    /\ workletNode' = s.workletNode
    /\ workletModuleLoaded' = s.workletModuleLoaded
    /\ processingQueue' = s.processingQueue
    /\ isProcessing' = s.isProcessing
    /\ calls' = s.calls
    /\ reqs' = s.reqs
    /\ startedLog' = s.startedLog
    /\ lifeEvent' = s.lifeEvent
    /\ enqueued' = s.enqueued
    /\ lastStartBy' = s.lastStartBy
    /\ canvasSize' = s.canvasSize
    /\ thumbs' = s.thumbs

\* BaseService.emit.  An event emitted inside performVideoAnalysis /
\* performAnalysis of request r is recorded with that request, oldest first,
\* and an analysis-started event in startedLog as well; of the events of the
\* lifecycle the last one is kept.
Event(type, frame, total, stage) ==
    [type |-> type, frame |-> frame, total |-> total, stage |-> stage]
emit(s, r, ev) ==
    [s EXCEPT !.reqs[r].events = Append(@, ev),
              !.startedLog = IF ev.type = "analysis-started"
                             THEN Append(@, r) ELSE @]
emitPlain(s, type) == [s EXCEPT !.lifeEvent = Event(type, 0, 0, "")]
\* emit('error', {error, stage})
emitError(s, stage) == [s EXCEPT !.lifeEvent = Event("error", 0, 0, stage)]

\* width and height of a new canvas element, and of no canvas
DefaultCanvasSize == <<300, 150>>
NoCanvasSize == <<0, 0>>

\* a request as analyzeVideo / analyzeAudio creates it
NewRequest ==
    [stage |-> "queued",     \* queued, loading, seeking, running, hung, finished, refused
     frame |-> 0,            \* loop variable i of extractFrames
     frames |-> <<>>,        \* the frames array of extractFrames
     sizes |-> <<>>,         \* width and height of each of these frames
     runSize |-> NoCanvasSize, \* history: the canvas size extractFrames set
     xlog |-> <<>>,          \* history: seek / seeked / capture steps
     events |-> <<>>,        \* history: the events emitted for the request
     promise |-> "pending",  \* pending, resolved, rejected
     error |-> "",           \* the error the promise was rejected with
     failure |-> ""]         \* history: what failed in this request

\* the requests that are inside performVideoAnalysis / performAnalysis
InFlight(s) ==
    {r \in 1..Len(s.reqs) :
        s.reqs[r].stage \in {"loading", "seeking", "running", "hung"}}

(* ---------------- processing queue ---------------- *)

\* the synchronous start of performVideoAnalysis / performAnalysis
\* (part_003:76-78, part_004:140-147): analysis-started is emitted, then the
\* video request waits for loadVideo, the audio request for Promise.all
performStart(s, r) ==
    LET s1 == emit(s, r, Event("analysis-started", 0, 0, "")) IN
    [s1 EXCEPT !.reqs[r].stage =
                   IF s.kind = "video" THEN "loading" ELSE "running"]

\* processQueue that takes the newest request of the queue (pop for shift)
processQueue_lifo(s, by) ==
    IF s.isProcessing \/ s.processingQueue = <<>>
    THEN s
    ELSE LET r == s.processingQueue[Len(s.processingQueue)] IN
         performStart([s EXCEPT !.isProcessing = TRUE,
                                !.processingQueue = SubSeq(@, 1, Len(@) - 1),
                                !.lastStartBy = by],
                      r)

\* processQueue up to its await; by names the caller
processQueue(s, by) ==
    IF s.isProcessing \/ s.processingQueue = <<>>
    THEN s
    ELSE LET r == Head(s.processingQueue) IN
         performStart([s EXCEPT !.isProcessing = TRUE,
                                !.processingQueue = Tail(@),
                                !.lastStartBy = by],
                      r)

\* the finally block without the call that advances the queue
finallyBlock_noAdvance(s) == [s EXCEPT !.isProcessing = FALSE]

\* the finally block of processQueue
finallyBlock(s) ==
    LET s1 == [s EXCEPT !.isProcessing = FALSE] IN
    IF s1.processingQueue # <<>> THEN processQueue(s1, "finally") ELSE s1

\* performVideoAnalysis / performAnalysis returned: analysis-complete was
\* emitted there, then processQueue resolves and runs finally
completeRequest(s, r) ==
    LET s1 == emit(s, r, Event("analysis-complete", 0, 0, ""))
        s2 == [s1 EXCEPT !.reqs[r].stage = "finished",
                         !.reqs[r].promise = "resolved"]
    IN finallyBlock(s2)

\* performVideoAnalysis / performAnalysis threw err: processQueue rejects
\* and runs finally
failRequest(s, r, err) ==
    LET s1 == [s EXCEPT !.reqs[r].stage = "finished",
                        !.reqs[r].promise = "rejected",
                        !.reqs[r].error = err,
                        !.reqs[r].failure = err]
    IN finallyBlock(s1)

\* the promise executor of analyzeVideo / analyzeAudio
enqueue(s) ==
    LET r == Len(s.reqs) + 1 IN
    processQueue([s EXCEPT !.reqs = Append(@, NewRequest),
                           !.processingQueue = Append(@, r),
                           !.enqueued = Append(@, r)],
                 "analyze")

(* ---------------- frame extraction ---------------- *)

XStep(op, i) == [op |-> op, i |-> i]

\* extractFrames that issues the seeks of step i and of all later steps at
\* once, without waiting for a seeked event
issueSeek_seekAll(s, r, i) ==
    [s EXCEPT !.reqs[r].stage = "seeking",
              !.reqs[r].frame = i,
              !.reqs[r].xlog = @ \o [k \in 1..(FrameCount - i) |->
                                        XStep("seek", i + k - 1)]]

\* extractFrames issues the seek of the loop's step i: video.currentTime = time
issueSeek(s, r, i) ==
    [s EXCEPT !.reqs[r].stage = "seeking",
              !.reqs[r].frame = i,
              !.reqs[r].xlog = Append(@, XStep("seek", i))]

\* the data of the frame-extracted event after loop step i
frameExtracted_sameIndex(i) == Event("frame-extracted", i, FrameCount, "")

\* the data of the frame-extracted event after loop step i
frameExtracted(i) == Event("frame-extracted", i + 1, FrameCount, "")

\* extractFrames after the capture of step i: the next seek, if any
afterCapture(s, r, i) ==
    IF i + 1 < FrameCount THEN issueSeek(s, r, i + 1) ELSE s


\* videoWidth and videoHeight of the videos of the model
VideoSize == <<1280, 720>>
\* Math.min
Min(a, b) == IF a < b THEN a ELSE b

\* extractFrames before its loop: the canvas takes the size of the video,
\* at most 640 x 480
startExtract(s, r) ==
    LET size == <<Min(VideoSize[1], 640), Min(VideoSize[2], 480)>> IN
    [s EXCEPT !.canvasSize = size, !.reqs[r].runSize = size]

\* loadVideo settled for request r.  loaded: onloadedmetadata (TRUE) or
\* onerror (FALSE).
LoadDone(r, loaded) ==
    /\ kind = "video"
    /\ r \in 1..Len(reqs)
    /\ reqs[r].stage = "loading"
    /\ LET s == EngState IN
       Becomes(IF ~loaded THEN failRequest(s, r, "load")
               ELSE IF ~s.canvas \/ ~s.ctx THEN failRequest(s, r, "canvas")
               ELSE issueSeek(startExtract(s, r), r, 0))

\* the seeked event of request r's video arrives and its onseeked handler
\* runs.  drawable: drawImage and getImageData return (they throw, for
\* instance, on a canvas of width 0).  When they throw inside the handler
\* resolve() is never called and nothing rejects: the await of extractFrames
\* never returns.  analysable: none of the five sub-analyses throws.
Seeked(r, drawable, analysable) ==
    /\ kind = "video"
    /\ r \in 1..Len(reqs)
    /\ reqs[r].stage = "seeking"
    /\ (~drawable \/ reqs[r].frame + 1 < FrameCount) => analysable
    /\ LET s == EngState
           i == reqs[r].frame
           s0 == [s EXCEPT !.reqs[r].xlog = Append(@, XStep("seeked", i))]
           s1 == [s0 EXCEPT !.reqs[r].frames = Append(@, i),
                            !.reqs[r].sizes = Append(@, s.canvasSize),
                            !.reqs[r].xlog = Append(@, XStep("capture", i))]
           s2 == afterCapture(emit(s1, r, frameExtracted(i)), r, i)
       IN Becomes(IF ~drawable
                  THEN [s0 EXCEPT !.reqs[r].stage = "hung",
                                  !.reqs[r].failure = "capture"]
                  ELSE IF i + 1 < FrameCount THEN s2
                  ELSE IF analysable THEN completeRequest(s2, r)
                  ELSE failRequest(s2, r, "analysis"))

(* ---------------- thumbnails ---------------- *)

\* a call of extractThumbnails: its progress, the loop variable i and the
\* sizes of the thumbnails drawn so far
NewThumbs == [stage |-> "loading", i |-> 0, sizes |-> <<>>]

\* width and height extractThumbnails gives the canvas
ThumbSize == <<160, 90>>

\* extractThumbnails: it calls loadVideo and waits; the processing queue
\* is not involved
ExtractThumbnails ==
    /\ kind = "video"
    /\ Len(thumbs) < MaxThumbs
    /\ Becomes([EngState EXCEPT !.thumbs = Append(@, NewThumbs)])

\* loadVideo settled for thumbnail call t: without canvas or context the
\* call throws, else the canvas is set to 160 x 90 and the first seek is
\* issued
ThumbLoadDone(t, loaded) ==
    /\ kind = "video"
    /\ t \in 1..Len(thumbs)
    /\ thumbs[t].stage = "loading"
    /\ LET s == EngState IN
       Becomes(IF ~loaded \/ ~s.canvas \/ ~s.ctx
               THEN [s EXCEPT !.thumbs[t].stage = "failed"]
               ELSE [s EXCEPT !.canvasSize = ThumbSize,
                              !.thumbs[t].stage = "seeking"])

\* the seeked event of thumbnail call t's video: the frame is drawn at the
\* size the canvas has and the next seek, if any, is issued.  drawable as
\* for Seeked
ThumbSeeked(t, drawable) ==
    /\ kind = "video"
    /\ t \in 1..Len(thumbs)
    /\ thumbs[t].stage = "seeking"
    /\ LET s == EngState
           i == thumbs[t].i
       IN Becomes(IF ~drawable THEN [s EXCEPT !.thumbs[t].stage = "hung"]
                  ELSE [s EXCEPT !.thumbs[t].sizes = Append(@, s.canvasSize),
                                 !.thumbs[t].i = i + 1,
                                 !.thumbs[t].stage =
                                     IF i + 1 < ThumbCount THEN "seeking"
                                     ELSE "done"])

\* analyzeVideo
AnalyzeVideo ==
    /\ kind = "video"
    /\ Len(reqs) < MaxRequests
    /\ Becomes(enqueue(EngState))

\* analyzeAudio: refused with an error unless audioContext and workletNode
\* are set
AnalyzeAudio ==
    /\ kind = "audio"
    /\ Len(reqs) < MaxRequests
    /\ LET s == EngState IN
       Becomes(IF s.audioContext = "none" \/ ~s.workletNode
               THEN [s EXCEPT !.reqs = Append(@,
                        [NewRequest EXCEPT !.stage = "refused",
                                           !.promise = "rejected",
                                           !.error = "not started"])]
               ELSE enqueue(s))

\* the Promise.all of performAnalysis settled for audio request r
AudioDone(r, analysable) ==
    /\ kind = "audio"
    /\ r \in 1..Len(reqs)
    /\ reqs[r].stage = "running"
    /\ LET s == EngState IN
       Becomes(IF analysable THEN completeRequest(s, r)
               ELSE failRequest(s, r, "analysis"))

(* ---------------- lifecycle ---------------- *)

\* a lifecycle call: op is the public method ("auto" is the constructor's
\* init().then(start)), pc the await it is suspended at, fail whether the
\* awaited hook promise is rejected
Call(op, pc, fail) == [op |-> op, pc |-> pc, fail |-> fail]
setPc(s, c, pc, fail) ==
    [s EXCEPT !.calls[c].pc = pc, !.calls[c].fail = fail]
\* the call is over: its record is dropped
dropCall(s, c) ==
    [s EXCEPT !.calls = SubSeq(@, 1, c - 1) \o SubSeq(@, c + 1, Len(@))]
returned(s, c) == dropCall(s, c)
\* the catch block: emit('error', {error, stage}); throw error
threw(s, c, stage) == dropCall(emitError(s, stage), c)

\* the browser offers WebCodecs ('VideoDecoder' in window); the event has no
\* listener in the repository
HasVideoDecoder == TRUE

\* init() past its guard: doInit up to its first await.  ok: getContext
\* returned a context (video), new AudioContext() did not throw (audio);
\* running: the new AudioContext starts in state running, not suspended
beginInit(s, c, ok, running) ==
    IF s.kind = "video"
    THEN LET s1 == [s EXCEPT !.canvas = TRUE, !.ctx = ok,
                             !.canvasSize = DefaultCanvasSize] IN
         IF ok
         THEN setPc(emitPlain(s1, IF HasVideoDecoder THEN "webcodecs-available"
                                  ELSE "webcodecs-fallback"),
                    c, "init_await", FALSE)
         ELSE setPc(s1, c, "init_await", TRUE)
    ELSE IF ok
         THEN setPc([s EXCEPT !.audioContext =
                                 IF running THEN "running" ELSE "suspended"],
                    c, "init_module", FALSE)
         ELSE setPc(s, c, "init_await", TRUE)

\* AudioEngine.doStart from the creation of the worklet node on.
\* ok: new AudioWorkletNode did not throw
startAudioNode(s, c, ok) ==
    IF s.workletModuleLoaded /\ s.audioContext # "none" /\ ~s.workletNode
    THEN IF ok
         THEN setPc(emitPlain([s EXCEPT !.workletNode = TRUE],
                              "audio-engine-started"),
                    c, "start_await", FALSE)
         ELSE setPc(s, c, "start_await", TRUE)
    ELSE setPc(emitPlain(s, "audio-engine-started"), c, "start_await", FALSE)

\* AudioEngine.doStart after the resume: the retry of addModule
startAudioRest(s, c, ok) ==
    IF ~s.workletModuleLoaded /\ s.audioContext # "none"
    THEN setPc(s, c, "start_module", FALSE)
    ELSE startAudioNode(s, c, ok)

\* start() from its isStarted guard on
startBody(s, c, ok) ==
    IF s.isStarted THEN returned(s, c)
    ELSE IF s.kind = "video"
    THEN setPc(emitPlain(s, "video-engine-started"), c, "start_await", FALSE)
    ELSE IF s.audioContext = "suspended"
    THEN setPc(s, c, "start_resume", FALSE)
    ELSE startAudioRest(s, c, ok)

\* init() after doInit resolved, and what the caller of init() does next
initDone(s, c, ok) ==
    LET s1 == emitPlain([s EXCEPT !.isInitialized = TRUE], "initialized") IN
    IF s.calls[c].op = "init" THEN returned(s1, c) ELSE startBody(s1, c, ok)

\* stop() past its guard: doStop up to its first await
stopBody(s, c) ==
    IF s.kind = "video"
    THEN setPc(emitPlain([s EXCEPT !.processingQueue = <<>>,
                                   !.isProcessing = FALSE],
                         "video-engine-stopped"),
               c, "stop_await", FALSE)
    ELSE IF s.audioContext = "running"
    THEN setPc(s, c, "stop_suspend", FALSE)
    ELSE setPc(emitPlain(s, "audio-engine-stopped"), c, "stop_await", FALSE)

\* destroy() from its try block on: doDestroy up to its first await
destroyBody(s, c) ==
    IF s.kind = "video"
    THEN setPc([s EXCEPT !.processingQueue = <<>>], c, "destroy_await", FALSE)
    ELSE LET s1 == [s EXCEPT !.workletNode = FALSE] IN
         IF s.audioContext # "none"
         THEN setPc(s1, c, "destroy_close", FALSE)
         ELSE setPc([s1 EXCEPT !.processingQueue = <<>>,
                               !.workletModuleLoaded = FALSE],
                    c, "destroy_await", FALSE)

\* stop() after doStop resolved, and what the caller of stop() does next
stopDone(s, c) ==
    LET s1 == emitPlain([s EXCEPT !.isStarted = FALSE], "stopped") IN
    IF s.calls[c].op = "stop" THEN returned(s1, c) ELSE destroyBody(s1, c)

\* destroy() after doDestroy resolved
destroyDone(s, c) ==
    returned(emitPlain([s EXCEPT !.isInitialized = FALSE], "destroyed"), c)

\* the continuation of lifecycle call c at the await named by its pc
resume(s, c, ok, ok2) ==
    LET pc == s.calls[c].pc
        closed == s.audioContext = "closed"
    IN
    CASE pc = "init_module" ->
           \* addModule settled: ok is its outcome; audio-context-ready
           initDone(emitPlain([s EXCEPT !.workletModuleLoaded = @ \/ ok],
                              "audio-context-ready"), c, ok2)
      [] pc = "init_await" ->
           IF s.calls[c].fail THEN threw(s, c, "initialization")
           ELSE initDone(s, c, ok)
      [] pc = "start_resume" ->
           \* audioContext.resume() rejects on a closed context
           IF closed THEN threw(s, c, "start")
           ELSE startAudioRest([s EXCEPT !.audioContext = "running"], c, ok)
      [] pc = "start_module" ->
           IF ok THEN startAudioNode([s EXCEPT !.workletModuleLoaded = TRUE],
                                     c, ok2)
           ELSE threw(s, c, "start")
      [] pc = "start_await" ->
           IF s.calls[c].fail THEN threw(s, c, "start")
           ELSE returned(emitPlain([s EXCEPT !.isStarted = TRUE], "started"), c)
      [] pc = "stop_suspend" ->
           \* audioContext.suspend() rejects on a closed context
           IF closed THEN threw(s, c, "stop")
           ELSE stopDone(emitPlain([s EXCEPT !.audioContext = "suspended"],
                                   "audio-engine-stopped"), c)
      [] pc = "stop_await" -> stopDone(s, c)
      [] pc = "destroy_close" ->
           \* audioContext.close() rejects on a closed context
           IF closed THEN threw(s, c, "destroy")
           ELSE destroyDone([s EXCEPT !.audioContext = "closed",
                                      !.processingQueue = <<>>,
                                      !.workletModuleLoaded = FALSE], c)
      [] pc = "destroy_await" -> destroyDone(s, c)

\* a new call record is appended and the code of the call runs to its await
newCall(s, op) == [s EXCEPT !.calls = Append(@, Call(op, "called", FALSE))]

\* The inputs of an action are the outcomes of the browser operations its
\* code reaches; an input the code does not reach is held at TRUE.
\* beginInit reads ok, and running when an AudioContext is created
InitInputs(ok, running) ==
    /\ isInitialized => ok
    /\ (isInitialized \/ kind = "video" \/ ~ok) => running
\* startBody reads ok when it reaches new AudioWorkletNode
StartInputs(ok) ==
    (kind = "video" \/ isStarted \/ audioContext = "suspended"
        \/ ~workletModuleLoaded \/ workletNode) => ok

\* init()
CallInit(ok, running) ==
    /\ Len(calls) < MaxPending
    /\ InitInputs(ok, running)
    /\ LET s == newCall(EngState, "init")
           c == Len(s.calls)
       IN Becomes(IF s.isInitialized THEN returned(s, c)
                  ELSE beginInit(s, c, ok, running))

\* start()
CallStart(ok, running) ==
    /\ Len(calls) < MaxPending
    /\ IF isInitialized THEN StartInputs(ok) /\ running
       ELSE InitInputs(ok, running)
    /\ LET s == newCall(EngState, "start")
           c == Len(s.calls)
       IN Becomes(IF ~s.isInitialized THEN beginInit(s, c, ok, running)
                  ELSE startBody(s, c, ok))

\* stop()
CallStop ==
    /\ Len(calls) < MaxPending
    /\ LET s == newCall(EngState, "stop")
           c == Len(s.calls)
       IN Becomes(IF ~s.isStarted THEN returned(s, c) ELSE stopBody(s, c))

\* destroy()
CallDestroy ==
    /\ Len(calls) < MaxPending
    /\ LET s == newCall(EngState, "destroy")
           c == Len(s.calls)
       IN Becomes(IF s.isStarted THEN stopBody(s, c) ELSE destroyBody(s, c))

\* an awaited promise of lifecycle call c settles and the call continues
Resume(c, ok, ok2) ==
    /\ c \in 1..Len(calls)
    /\ (kind = "video"
          \/ calls[c].pc \notin {"init_module", "init_await", "start_resume",
                                 "start_module"}) => ok
    /\ (kind = "video" \/ calls[c].pc \notin {"init_module", "start_module"})
          => ok2
    /\ Becomes(resume(EngState, c, ok, ok2))

\* no lifecycle event was emitted yet
NoEvent == Event("", 0, 0, "")

\* new VideoEngine(): autoStart runs init() inside the constructor, so
\* doInit has run to its end and init() waits at its await.  A VideoEngine has
\* no processor; the processor variables stay at their initial values
InitVideo ==
    /\ InitProc
    /\ NoCall
    /\ NoService
    /\ kind = "video"
    /\ isInitialized = FALSE
    /\ isStarted = FALSE
    /\ canvas = TRUE
    /\ ctx \in BOOLEAN
    /\ audioContext = "none"
    /\ workletNode = FALSE
    /\ workletModuleLoaded = FALSE
    /\ processingQueue = <<>>
    /\ isProcessing = FALSE
    /\ calls = <<Call("auto", "init_await", ~ctx)>>
    /\ reqs = <<>>
    /\ startedLog = <<>>
    /\ lifeEvent = IF ctx
                   THEN Event(IF HasVideoDecoder THEN "webcodecs-available"
                              ELSE "webcodecs-fallback", 0, 0, "")
                   ELSE NoEvent
    /\ enqueued = <<>>
    /\ lastStartBy = ""
    /\ canvasSize = DefaultCanvasSize
    /\ thumbs = <<>>

\* new AudioEngine(): autoStart is false; its processor is as constructed
InitAudio ==
    /\ InitProc
    /\ NoCall
    /\ NoService
    /\ kind = "audio"
    /\ isInitialized = FALSE
    /\ isStarted = FALSE
    /\ canvas = FALSE
    /\ ctx = FALSE
    /\ audioContext = "none"
    /\ workletNode = FALSE
    /\ workletModuleLoaded = FALSE
    /\ processingQueue = <<>>
    /\ isProcessing = FALSE
    /\ calls = <<>>
    /\ reqs = <<>>
    /\ startedLog = <<>>
    /\ lifeEvent = NoEvent
    /\ enqueued = <<>>
    /\ lastStartBy = ""
    /\ canvasSize = NoCanvasSize
    /\ thumbs = <<>>

vars == <<procVars, engVars, fnVars, svcVars>>

\* the processor alone; the engine stays as constructed
SpecProc == InitAudio /\ [][NextProc]_vars

NextEngine ==
    \/ AnalyzeVideo
    \/ \E r \in 1..MaxRequests, a \in BOOLEAN : LoadDone(r, a)
    \/ \E r \in 1..MaxRequests, a \in BOOLEAN, b \in BOOLEAN : Seeked(r, a, b)
    \/ AnalyzeAudio
    \/ \E r \in 1..MaxRequests, a \in BOOLEAN : AudioDone(r, a)
    \/ \E a \in BOOLEAN, b \in BOOLEAN : CallInit(a, b)
    \/ \E a \in BOOLEAN, b \in BOOLEAN : CallStart(a, b)
    \/ CallStop
    \/ CallDestroy
    \/ \E c \in 1..MaxPending, a \in BOOLEAN, b \in BOOLEAN : Resume(c, a, b)

\* one engine, VideoEngine or AudioEngine; the processor stays as constructed
SpecEngine == (InitVideo \/ InitAudio) /\ [][NextEngine]_vars

\* the steps the event loop takes on its own for request r: a media event
\* is delivered, the workers answer
ContinueRequest(r) ==
    \/ \E a \in BOOLEAN : LoadDone(r, a)
    \/ \E a \in BOOLEAN, b \in BOOLEAN : Seeked(r, a, b)
    \/ \E a \in BOOLEAN : AudioDone(r, a)

\* and for lifecycle call c: its awaited promise settles
ContinueCall(c) == \E a \in BOOLEAN, b \in BOOLEAN : Resume(c, a, b)

\* the engine with an event loop that delivers every event that is due
SpecEngineLive ==
    /\ SpecEngine
    /\ \A r \in 1..MaxRequests : WF_vars(ContinueRequest(r))
    /\ \A c \in 1..MaxPending : WF_vars(ContinueCall(c))

\* a VideoEngine whose canvas is used by analyzeVideo and extractThumbnails
NextCanvas ==
    \/ AnalyzeVideo
    \/ \E r \in 1..MaxRequests, a \in BOOLEAN : LoadDone(r, a)
    \/ \E r \in 1..MaxRequests, a \in BOOLEAN, b \in BOOLEAN : Seeked(r, a, b)
    \/ ExtractThumbnails
    \/ \E t \in 1..MaxThumbs, a \in BOOLEAN : ThumbLoadDone(t, a)
    \/ \E t \in 1..MaxThumbs, a \in BOOLEAN : ThumbSeeked(t, a)

SpecCanvas == InitVideo /\ [][NextCanvas]_vars

(***************************************************************************)
(* Part III.  Analysis functions of VideoEngine and AudioEngine            *)
(*                                                                         *)
(* The functions read their arguments and the engine's constants only.     *)
(* One behaviour makes one call: the action draws the arguments and keeps  *)
(* them in fnCall with the returned value in fnResult.                     *)
(***************************************************************************)

\* a pixel of ImageData.data: r, g, b (alpha is not read by the analyses)
Pixel(r, g, b) == <<r, g, b>>
Gray(v) == Pixel(v, v, v)
\* an ImageData
Frame(w, h, data) == [width |-> w, height |-> h, data |-> data]

\* sqrt((r2-r1)^2 + (g2-g1)^2 + (b2-b1)^2) / sqrt(3) for two pixels whose
\* three channels differ by the same amount d: sqrt(3 d^2) / sqrt(3) = d.
\* Other pairs of pixels give irrational values; the frames of the model
\* have none.
ChannelDistance(p, q) ==
    CASE Abs(q[1] - p[1]) = Abs(q[2] - p[2])
         /\ Abs(q[2] - p[2]) = Abs(q[3] - p[3]) -> Abs(q[1] - p[1])

\* computeFrameDifference: the intensity totalDiff / pixelCount, where each
\* pixel adds its distance / (255 * sqrt(3))
computeFrameDifference(frame1, frame2) ==
    Rat(SumSeq([k \in DOMAIN frame1.data |->
                   ChannelDistance(frame1.data[k], frame2.data[k])]),
        255 * Len(frame1.data))

\* the scene change threshold 0.3 of analyzeScenes
SceneThreshold == Rat(3, 10)

\* sceneEnd that takes the timestamp of the frame before the change
sceneEnd_prev(i, duration, n) == Rat((i - 1) * duration, n)

\* sceneEnd = i * frameInterval, with frameInterval = duration / frames.length
sceneEnd(i, duration, n) == Rat(i * duration, n)

\* a SceneAnalysis; of is the index of the frame classifyScene was given
Scene(start, end, of) == [start |-> start, end |-> end, of |-> of]

RECURSIVE scenesLoop(_, _, _, _, _)
\* the for loop of analyzeScenes from step i on:
\* <<scenes, currentSceneStart>> at its end
scenesLoop(frames, duration, i, scenes, currentSceneStart) ==
    IF i >= Len(frames) THEN <<scenes, currentSceneStart>>
    ELSE IF RatLess(SceneThreshold,
                    computeFrameDifference(frames[i], frames[i + 1]))
    THEN scenesLoop(frames, duration, i + 1,
                    Append(scenes,
                           Scene(currentSceneStart,
                                 sceneEnd(i, duration, Len(frames)), i - 1)),
                    sceneEnd(i, duration, Len(frames)))
    ELSE scenesLoop(frames, duration, i + 1, scenes, currentSceneStart)

\* analyzeScenes without the final scene
analyzeScenes_noFinal(frames, duration) ==
    scenesLoop(frames, duration, 1, <<>>, Rat(0, 1))[1]

\* analyzeScenes.  frames[i] of the source is element i + 1 of the sequence.
analyzeScenes(frames, duration) ==
    LET lp == scenesLoop(frames, duration, 1, <<>>, Rat(0, 1)) IN
    IF RatLess(lp[2], Rat(duration, 1))
    THEN Append(lp[1], Scene(lp[2], Rat(duration, 1), Len(frames) - 1))
    ELSE lp[1]

\* gray levels of the frames given to analyzeScenes: black, a dark gray
\* within the threshold of black (64 / 255 < 0.3), and white
GrayLevels == {0, 64, 255}
SceneFrames ==
    {Frame(ScenePixels, 1, data) :
        data \in [1..ScenePixels -> {Gray(v) : v \in GrayLevels}]}
SceneFrameSeqs == UNION {[1..n -> SceneFrames] : n \in 1..MaxFrames}
Durations == 0..MaxDuration

\* a call of analyzeScenes
AnalyzeScenes(frames, duration) ==
    /\ NoCall
    /\ fnCall' = [fn |-> "analyzeScenes", frames |-> frames,
                  duration |-> duration]
    /\ fnResult' = analyzeScenes(frames, duration)
    /\ UNCHANGED <<procVars, engVars, svcVars>>

\* the one call of a behaviour
NextScenes ==
    /\ NoCall
    /\ \E frames \in SceneFrameSeqs, duration \in Durations :
           AnalyzeScenes(frames, duration)

SpecScenes == InitVideo /\ [][NextScenes]_vars

(* ---------------- estimateTempo ---------------- *)

\* Times are whole multiples of 2.5 ms, a quarter of the histogram's
\* resolution of 0.01 s; a bucket is a whole number of resolution steps.
\* The arithmetic is exact: the rounding error of the source's floating
\* point divisions is not carried.

\* Math.round(interval / resolution): the nearest integer, a tie going up
bucketOf(interval) == (interval + 2) \div 4

\* the range test that drops the upper limit
inTempoRange_noUpper(bucket) == bucket > 20

\* interval > 0.2 && interval < 2.0 for an interval of bucket * 0.01 s
inTempoRange(bucket) == bucket > 20 /\ bucket < 200

\* the length test that lets a list of three onsets pass
tooFewOnsets_three(onsets) == Len(onsets) < 3

\* onsets.length < 4
tooFewOnsets(onsets) == Len(onsets) < 4

\* the inter-onset intervals, in order
intervalsOf(onsets) == [i \in 1..(Len(onsets) - 1) |-> onsets[i + 1] - onsets[i]]

\* the index of the first entry of the histogram with the given bucket, 0 if
\* there is none
EntryOf(histogram, bucket) ==
    IF \E k \in 1..Len(histogram) : histogram[k].bucket = bucket
    THEN CHOOSE k \in 1..Len(histogram) : histogram[k].bucket = bucket
    ELSE 0

RECURSIVE buildHistogram(_, _)
\* the Map after intervals.forEach: its entries in insertion order
buildHistogram(intervals, histogram) ==
    IF intervals = <<>> THEN histogram
    ELSE LET b == bucketOf(Head(intervals))
             k == EntryOf(histogram, b)
         IN buildHistogram(Tail(intervals),
                IF k = 0 THEN Append(histogram, [bucket |-> b, count |-> 1])
                ELSE [histogram EXCEPT ![k].count = @ + 1])

RECURSIVE findPeak(_, _, _)
\* histogram.forEach over the entries left: <<maxCount, bestInterval>>, the
\* best interval as a bucket
findPeak(histogram, maxCount, bestInterval) ==
    IF histogram = <<>> THEN <<maxCount, bestInterval>>
    ELSE LET e == Head(histogram) IN
         IF e.count > maxCount /\ inTempoRange(e.bucket)
         THEN findPeak(Tail(histogram), e.count, e.bucket)
         ELSE findPeak(Tail(histogram), maxCount, bestInterval)

\* Math.round(60 / bestInterval) for a best interval of bucket * 0.01 s
roundedBpm(bucket) == (12000 + bucket) \div (2 * bucket)

\* estimateTempo; histogram is kept with the result to tell whether it was
\* built.  The sampleRate argument is not read.
estimateTempo(onsets) ==
    IF tooFewOnsets(onsets)
    THEN [bpm |-> 120, confidence |-> Rat(0, 1), histogram |-> <<>>]
    ELSE LET intervals == intervalsOf(onsets)
             histogram == buildHistogram(intervals, <<>>)
             \* let bestInterval = 0.5: bucket 50
             peak == findPeak(histogram, 0, 50)
         IN [bpm |-> roundedBpm(peak[2]),
             confidence |-> Rat(peak[1], Len(intervals)),
             histogram |-> histogram]

\* onset times: 0, 0.2 s, 0.21 s, 0.5 s, 1.99 s, 2 s, 2.5 s
OnsetTimes == {0, 80, 84, 200, 796, 800, 1000}
OnsetLists == UNION {[1..n -> OnsetTimes] : n \in 0..MaxOnsets}

\* a call of estimateTempo
EstimateTempo(onsets) ==
    /\ NoCall
    /\ fnCall' = [fn |-> "estimateTempo", onsets |-> onsets]
    /\ fnResult' = estimateTempo(onsets)
    /\ UNCHANGED <<procVars, engVars, svcVars>>

NextTempo == NoCall /\ \E onsets \in OnsetLists : EstimateTempo(onsets)

SpecTempo == InitAudio /\ [][NextTempo]_vars

(* ---------------- analyzeMotion ---------------- *)

\* blockSize of computeOpticalFlow
BlockSize == 16

\* computeOpticalFlow.  Its loops run over the blocks that start at x, y
\* with x < width - blockSize and y < height - blockSize; a frame that is
\* not wider or not higher than one block has none, and blockCount = 0
\* gives 0 for both components.  The frames of the model are such frames.
computeOpticalFlow(frame1, frame2) ==
    CASE frame1.width <= BlockSize \/ frame1.height <= BlockSize ->
           [horizontal |-> Rat(0, 1), vertical |-> Rat(0, 1)]

\* computeVariance of values that are rationals of one denominator, as the
\* intensities of frames of one size are: the mean of the squared
\* distances to the mean
computeVariance(values) ==
    LET n == Len(values)
        d == values[1][2]
        total == SumSeq([k \in 1..n |-> values[k][1]])
        \* values[k] - mean = (n * values[k][1] - total) / (n * d)
        sq == SumSeq([k \in 1..n |->
                        (n * values[k][1] - total) * (n * values[k][1] - total)])
    IN Rat(sq, n * d * n * d * n)

\* Math.max(0, x)
max0(x) == IF RatLess(x, Rat(0, 1)) THEN Rat(0, 1) ELSE x

\* the direction that is static up to the threshold of low motion
motionDirection_lowStatic(avgMotion, avgHorizontal, avgVertical) ==
    IF RatLess(avgMotion, Rat(3, 10)) THEN "static"
    ELSE IF RatLess(Rat(3 * avgVertical[1], 2 * avgVertical[2]), avgHorizontal)
    THEN "horizontal"
    ELSE IF RatLess(Rat(3 * avgHorizontal[1], 2 * avgHorizontal[2]), avgVertical)
    THEN "vertical"
    ELSE "mixed"

\* the dominant direction (part_003:181-190)
motionDirection(avgMotion, avgHorizontal, avgVertical) ==
    IF RatLess(avgMotion, Rat(1, 10)) THEN "static"
    ELSE IF RatLess(Rat(3 * avgVertical[1], 2 * avgVertical[2]), avgHorizontal)
    THEN "horizontal"
    ELSE IF RatLess(Rat(3 * avgHorizontal[1], 2 * avgHorizontal[2]), avgVertical)
    THEN "vertical"
    ELSE "mixed"

\* the classification with the thresholds of static and low exchanged
motionClass_swapped(avgMotion) ==
    IF RatLess(avgMotion, Rat(1, 10)) THEN "low"
    ELSE IF RatLess(avgMotion, Rat(3, 10)) THEN "static"
    ELSE IF RatLess(avgMotion, Rat(6, 10)) THEN "medium"
    ELSE "high"

\* the classification of the intensity (part_003:197-201)
motionClass(avgMotion) ==
    IF RatLess(avgMotion, Rat(1, 10)) THEN "static"
    ELSE IF RatLess(avgMotion, Rat(3, 10)) THEN "low"
    ELSE IF RatLess(avgMotion, Rat(6, 10)) THEN "medium"
    ELSE "high"

\* analyzeMotion; pairs, the number of frame pairs compared, is kept with
\* the result.  The frames are of one size, so that the intensities of the
\* pairs have one denominator.
analyzeMotion(frames) ==
    IF Len(frames) < 2
    THEN [intensity |-> Rat(0, 1), direction |-> "static",
          consistency |-> Rat(1, 1), classification |-> "static", pairs |-> 0]
    ELSE LET n == Len(frames)
             motionValues == [i \in 1..(n - 1) |->
                                computeFrameDifference(frames[i], frames[i + 1])]
             flows == [i \in 1..(n - 1) |->
                         computeOpticalFlow(frames[i], frames[i + 1])]
             d == motionValues[1][2]
             totalMotion == SumSeq([i \in 1..(n - 1) |-> motionValues[i][1]])
             avgMotion == Rat(totalMotion, d * (n - 1))
             \* the components are whole numbers of pixels per block
             avgHorizontal == Rat(SumSeq([i \in 1..(n - 1) |->
                                     Abs(flows[i].horizontal[1])]), n - 1)
             avgVertical == Rat(SumSeq([i \in 1..(n - 1) |->
                                   Abs(flows[i].vertical[1])]), n - 1)
         IN [intensity |-> avgMotion,
             direction |-> motionDirection(avgMotion, avgHorizontal, avgVertical),
             consistency |-> max0(RatSub(Rat(1, 1), computeVariance(motionValues))),
             classification |-> motionClass(avgMotion),
             pairs |-> Len(motionValues)]

\* the frame sequences given to analyzeMotion: those of analyzeScenes and
\* the empty one
MotionFrameSeqs == SceneFrameSeqs \cup {<<>>}

\* a call of analyzeMotion
AnalyzeMotion(frames) ==
    /\ NoCall
    /\ fnCall' = [fn |-> "analyzeMotion", frames |-> frames]
    /\ fnResult' = analyzeMotion(frames)
    /\ UNCHANGED <<procVars, engVars, svcVars>>

NextMotion == NoCall /\ \E frames \in MotionFrameSeqs : AnalyzeMotion(frames)

SpecMotion == InitVideo /\ [][NextMotion]_vars

(* ---------------- analyzeColor ---------------- *)

RECURSIVE Gcd(_, _)
Gcd(a, b) == IF b = 0 THEN a ELSE Gcd(b, a % b)
\* p in lowest terms; the value is the same, the numbers stay small
Reduce(p) ==
    LET g == Gcd(Abs(p[1]), p[2]) IN Rat(p[1] \div g, p[2] \div g)

RECURSIVE RatSum(_, _)
\* the running total of the first n rationals of s
RatSum(s, n) ==
    IF n = 0 THEN Rat(0, 1) ELSE Reduce(RatAdd(RatSum(s, n - 1), s[n]))

\* Math.max and Math.min of three numbers
max3(a, b, c) == IF a >= b /\ a >= c THEN a ELSE IF b >= c THEN b ELSE c
min3(a, b, c) == IF a <= b /\ a <= c THEN a ELSE IF b <= c THEN b ELSE c

\* the width of a colour bin of extractDominantColors
ColorBin == 32

\* Math.floor(v / 32) * 32
quantize(v) == (v \div ColorBin) * ColorBin

\* an entry of colorMap
Color(r, g, b, count) == [r |-> r, g |-> g, b |-> b, count |-> count]

\* the pixels read by the loop "i = 0; i < data.length; i += 16": every
\* fourth pixel, from the first one on
sampledPixels(frame) ==
    [j \in 1..((Len(frame.data) + 3) \div 4) |-> frame.data[4 * (j - 1) + 1]]

RECURSIVE countColors(_, _, _)
\* the loop of extractDominantColors from sampled pixel k on; colorMap
\* holds its entries in insertion order, as a Map does
countColors(pixels, k, colorMap) ==
    IF k > Len(pixels) THEN colorMap
    ELSE LET r == quantize(pixels[k][1])
             g == quantize(pixels[k][2])
             b == quantize(pixels[k][3])
             has == {j \in DOMAIN colorMap :
                        /\ colorMap[j].r = r
                        /\ colorMap[j].g = g
                        /\ colorMap[j].b = b}
         IN IF has # {}
            THEN countColors(pixels, k + 1,
                     [j \in DOMAIN colorMap |->
                         IF j \in has
                         THEN Color(r, g, b, colorMap[j].count + 1)
                         ELSE colorMap[j]])
            ELSE countColors(pixels, k + 1, Append(colorMap, Color(r, g, b, 1)))

RECURSIVE insertByCount(_, _)
\* c put into a list sorted by falling count, behind the entries of its count
insertByCount(sorted, c) ==
    IF sorted = <<>> THEN <<c>>
    ELSE IF Head(sorted).count >= c.count
    THEN <<Head(sorted)>> \o insertByCount(Tail(sorted), c)
    ELSE <<c>> \o sorted

RECURSIVE sortByCount(_, _)
\* the first n entries of colors after sort((a, b) => b.count - a.count),
\* a stable sort
sortByCount(colors, n) ==
    IF n = 0 THEN <<>>
    ELSE insertByCount(sortByCount(colors, n - 1), colors[n])

\* extractDominantColors
extractDominantColors(frame, count) ==
    LET colorMap == countColors(sampledPixels(frame), 1, <<>>)
        sorted == sortByCount(colorMap, Len(colorMap))
    IN SubSeq(sorted, 1, IF Len(sorted) < count THEN Len(sorted) ELSE count)

\* the sum of the counts of colors
totalWeight(colors) == SumSeq([j \in DOMAIN colors |-> colors[j].count])

\* computeColorTemperature
computeColorTemperature(colors) ==
    IF totalWeight(colors) > 0
    THEN Reduce(Rat(SumSeq([j \in DOMAIN colors |->
                        (colors[j].r - colors[j].b + 255) * colors[j].count]),
                    510 * totalWeight(colors)))
    ELSE Rat(1, 2)

\* computeSaturation
computeSaturation(colors) ==
    LET sat(c) == IF max3(c.r, c.g, c.b) > 0
                  THEN Rat(max3(c.r, c.g, c.b) - min3(c.r, c.g, c.b),
                           max3(c.r, c.g, c.b))
                  ELSE Rat(0, 1)
        weighted == [j \in DOMAIN colors |->
                        Rat(sat(colors[j])[1] * colors[j].count,
                            sat(colors[j])[2])]
        weightedSat == RatSum(weighted, Len(weighted))
    IN IF totalWeight(colors) > 0
       THEN Reduce(Rat(weightedSat[1], weightedSat[2] * totalWeight(colors)))
       ELSE Rat(0, 1)

\* the square of colorDistance; the square root keeps the order
colorDistance2(color1, color2) ==
    (color1.r - color2.r) * (color1.r - color2.r)
    + (color1.g - color2.g) * (color1.g - color2.g)
    + (color1.b - color2.b) * (color1.b - color2.b)

\* the first index of the smallest of the distances; "distance <
\* nearestDistance" keeps the first of equally near centroids
firstNearest(distances) ==
    CHOOSE i \in DOMAIN distances :
        /\ \A j \in DOMAIN distances : distances[i] <= distances[j]
        /\ \A j \in 1..(i - 1) : distances[j] > distances[i]

\* the index of the centroid nearest to color
nearestIndex(color, centroids) ==
    firstNearest([i \in DOMAIN centroids |-> colorDistance2(color, centroids[i])])

\* Math.round(a / b) for a >= 0 and b > 0
roundDiv(a, b) == (2 * a + b) \div (2 * b)

\* the centroids after the update of one iteration; nearest[j] is the
\* index of the cluster colour j was put in.  A centroid with a cluster
\* becomes the weighted mean of its cluster.
updateCentroids(colors, centroids, nearest) ==
    [index \in DOMAIN centroids |->
        LET total(f(_)) == SumSeq([j \in DOMAIN colors |->
                                      IF nearest[j] = index
                                      THEN f(colors[j]) ELSE 0])
            wr(c) == c.r * c.count
            wg(c) == c.g * c.count
            wb(c) == c.b * c.count
            wc(c) == c.count
        IN IF \E j \in DOMAIN colors : nearest[j] = index
           THEN Color(roundDiv(total(wr), total(wc)),
                      roundDiv(total(wg), total(wc)),
                      roundDiv(total(wb), total(wc)),
                      total(wc))
           ELSE centroids[index]]

\* one iteration of clusterColors: every colour goes to its nearest
\* centroid, then the centroids are updated
clusterStep(colors, centroids) ==
    updateCentroids(colors, centroids,
                    [j \in DOMAIN colors |-> nearestIndex(colors[j], centroids)])

\* the number of iterations of clusterColors
ClusterIterations == 10

RECURSIVE clusterLoop(_, _, _)
clusterLoop(colors, centroids, iter) ==
    IF iter >= ClusterIterations THEN centroids
    ELSE clusterLoop(colors, clusterStep(colors, centroids), iter + 1)

\* clusterColors
clusterColors(colors, k) ==
    IF Len(colors) <= k THEN colors
    ELSE clusterLoop(colors, SubSeq(colors, 1, k), 0)

\* the template string `rgb(${c.r},${c.g},${c.b})`, as its parts
rgbString(r, g, b) == <<"rgb(", r, ",", g, ",", b, ")">>

RECURSIVE concatAll(_, _)
\* the first n lists of s, one after the other
concatAll(s, n) == IF n = 0 THEN <<>> ELSE concatAll(s, n - 1) \o s[n]

\* the mood of analyzeColor
colorMood(avgTemperature, avgSaturation) ==
    IF RatLess(Rat(6, 10), avgTemperature) /\ RatLess(Rat(6, 10), avgSaturation)
    THEN "warm"
    ELSE IF RatLess(avgTemperature, Rat(4, 10)) /\ RatLess(Rat(6, 10), avgSaturation)
    THEN "cool"
    ELSE IF RatLess(Rat(7, 10), avgSaturation) THEN "vibrant"
    ELSE "muted"

\* dominantColors.map(c => `rgb(${c.r},${c.g},${c.b})`)
rgbStrings(dominantColors) ==
    [j \in DOMAIN dominantColors |->
        rgbString(dominantColors[j].r, dominantColors[j].g, dominantColors[j].b)]

\* the result of analyzeColor from the totals of its loop over n frames
colorResult(n, allColors, totalTemperature, totalSaturation) ==
    [dominantColors |-> rgbStrings(clusterColors(allColors, 3)),
     temperature |-> Reduce(Rat(totalTemperature[1], totalTemperature[2] * n)),
     saturation |-> Reduce(Rat(totalSaturation[1], totalSaturation[2] * n)),
     mood |-> colorMood(Rat(totalTemperature[1], totalTemperature[2] * n),
                        Rat(totalSaturation[1], totalSaturation[2] * n))]

\* the loop of analyzeColor, from the dominant colours of each frame
colorTotals(n, colors) ==
    colorResult(n, concatAll(colors, n),
                RatSum([i \in 1..n |-> computeColorTemperature(colors[i])], n),
                RatSum([i \in 1..n |-> computeSaturation(colors[i])], n))

\* analyzeColor of at least one frame
analyzeColor(frames) ==
    colorTotals(Len(frames),
                [i \in 1..Len(frames) |-> extractDominantColors(frames[i], 5)])

\* the colours of the frames given to analyzeColor: pure red, pure blue
Red == Pixel(255, 0, 0)
Blue == Pixel(0, 0, 255)
\* frames of ColorPixels pixels whose first pixel has one colour and whose
\* other pixels have one colour; the first and the fifth pixel are sampled
ColorFrames ==
    {Frame(ColorPixels, 1, [k \in 1..ColorPixels |-> IF k = 1 THEN c1 ELSE c2]) :
        c1 \in {Red, Blue}, c2 \in {Red, Blue}}
ColorFrameSeqs == UNION {[1..n -> ColorFrames] : n \in 1..MaxColorFrames}

\* a call of analyzeColor
AnalyzeColor(frames) ==
    /\ NoCall
    /\ fnCall' = [fn |-> "analyzeColor", frames |-> frames]
    /\ fnResult' = analyzeColor(frames)
    /\ UNCHANGED <<procVars, engVars, svcVars>>

NextColor == NoCall /\ \E frames \in ColorFrameSeqs : AnalyzeColor(frames)

SpecColor == InitVideo /\ [][NextColor]_vars

(* ---------------- computeSharpness, computeNoise ---------------- *)

\* the pixel at column x of row y of an ImageData, both counted from 0
PixelAt(frame, x, y) == frame.data[y * frame.width + x + 1]

\* the pixels with four neighbours: 1 <= x < width - 1, 1 <= y < height - 1,
\* row by row
interior(frame) ==
    [k \in 1..((frame.width - 2) * (frame.height - 2)) |->
        [x |-> 1 + ((k - 1) % (frame.width - 2)),
         y |-> 1 + ((k - 1) \div (frame.width - 2))]]

\* three times the grayscale value (r + g + b) / 3 of a pixel
gray3(p) == p[1] + p[2] + p[3]

\* computeSharpness: the mean over the interior pixels of
\* |4 * center - top - bottom - left - right| / 255
computeSharpness(frame) ==
    LET at == interior(frame)
        count == Len(at)
        laplacian3(x, y) ==
            Abs(4 * gray3(PixelAt(frame, x, y))
                - gray3(PixelAt(frame, x, y - 1))
                - gray3(PixelAt(frame, x, y + 1))
                - gray3(PixelAt(frame, x - 1, y))
                - gray3(PixelAt(frame, x + 1, y)))
    IN IF count > 0
       THEN Rat(SumSeq([k \in 1..count |-> laplacian3(at[k].x, at[k].y)]),
                3 * 255 * count)
       ELSE Rat(0, 1)

\* computeNoise: the mean over the interior pixels of
\* |center - surrounding| / 255 on the red channel, surrounding being the
\* mean of the four neighbours
computeNoise(frame) ==
    LET at == interior(frame)
        count == Len(at)
        highFreq4(x, y) ==
            Abs(4 * PixelAt(frame, x, y)[1]
                - (PixelAt(frame, x - 1, y)[1]
                   + PixelAt(frame, x + 1, y)[1]
                   + PixelAt(frame, x, y - 1)[1]
                   + PixelAt(frame, x, y + 1)[1]))
    IN IF count > 0
       THEN Rat(SumSeq([k \in 1..count |-> highFreq4(at[k].x, at[k].y)]),
                4 * 255 * count)
       ELSE Rat(0, 1)

\* the pixels of the frames given to the quality assessor: black and
\* white, the two ends of every channel
QualityPixels == {Gray(0), Gray(255)}
\* frames of QualityWidth x QualityHeight pixels
QualityFrames ==
    {Frame(QualityWidth, QualityHeight, data) :
        data \in [1..(QualityWidth * QualityHeight) -> QualityPixels]}

\* the two per-frame measures analyzeQuality takes of each frame
AssessFrame(frame) ==
    /\ NoCall
    /\ fnCall' = [fn |-> "analyzeQuality", frame |-> frame]
    /\ fnResult' = [sharpness |-> computeSharpness(frame),
                    noise |-> computeNoise(frame)]
    /\ UNCHANGED <<procVars, engVars, svcVars>>

NextQuality == NoCall /\ \E frame \in QualityFrames : AssessFrame(frame)

SpecQuality == InitVideo /\ [][NextQuality]_vars

(* ---------------- analyzeMood ---------------- *)

\* the denominator of the brightness values given to the mood mapping;
\* the energies have ten times this denominator
MoodDen == 20

\* Math.min(1, Math.max(0, x))
clamp01(x) ==
    IF RatLess(x, Rat(0, 1)) THEN Rat(0, 1)
    ELSE IF RatLess(Rat(1, 1), x) THEN Rat(1, 1)
    ELSE x

\* the category with the tests of calm and sad exchanged
moodCategory_calmFirst(valence, arousal) ==
    IF RatLess(Rat(6, 10), valence) /\ RatLess(Rat(6, 10), arousal) THEN "happy"
    ELSE IF RatLess(arousal, Rat(3, 10)) THEN "calm"
    ELSE IF RatLess(Rat(7, 10), arousal) THEN "energetic"
    ELSE IF RatLess(valence, Rat(4, 10)) /\ RatLess(arousal, Rat(4, 10)) THEN "sad"
    ELSE IF RatLess(valence, Rat(4, 10)) THEN "dramatic"
    ELSE "peaceful"

\* the if / else if chain of analyzeMood (part_004:368-373)
moodCategory(valence, arousal) ==
    IF RatLess(Rat(6, 10), valence) /\ RatLess(Rat(6, 10), arousal) THEN "happy"
    ELSE IF RatLess(valence, Rat(4, 10)) /\ RatLess(arousal, Rat(4, 10)) THEN "sad"
    ELSE IF RatLess(Rat(7, 10), arousal) THEN "energetic"
    ELSE IF RatLess(arousal, Rat(3, 10)) THEN "calm"
    ELSE IF RatLess(valence, Rat(4, 10)) THEN "dramatic"
    ELSE "peaceful"

\* the end of analyzeMood, from the averages of its loop over the windows:
\* valence and arousal are clamped to [0, 1], arousal after the factor 10
moodOf(avgBrightness, avgEnergy) ==
    LET valence == clamp01(avgBrightness)
        arousal == clamp01(Rat(10 * avgEnergy[1], avgEnergy[2]))
    IN [valence |-> valence, arousal |-> arousal,
        category |-> moodCategory(valence, arousal)]

\* the averages: brightness from below 0 to above 1 in steps of 1 / 20,
\* energy from 0 to above 0.1 in steps of 1 / 200
Brightnesses == {Rat(k, MoodDen) : k \in (0 - 2)..MaxMood}
Energies == {Rat(k, 10 * MoodDen) : k \in 0..MaxMood}

\* a call of analyzeMood whose windows have these averages
AnalyzeMood(avgBrightness, avgEnergy) ==
    /\ NoCall
    /\ fnCall' = [fn |-> "analyzeMood", avgBrightness |-> avgBrightness,
                  avgEnergy |-> avgEnergy]
    /\ fnResult' = moodOf(avgBrightness, avgEnergy)
    /\ UNCHANGED <<procVars, engVars, svcVars>>

NextMood ==
    NoCall /\ \E avgBrightness \in Brightnesses, avgEnergy \in Energies :
                 AnalyzeMood(avgBrightness, avgEnergy)

SpecMood == InitAudio /\ [][NextMood]_vars

(* ---------------- classifyScene ---------------- *)

\* the denominator of the brightness and edge density values given to the
\* rules of classifyScene
SceneDen == 20

\* the rules of classifyScene (part_003:558-573) on the three values it
\* computes from the frame: brightness, whether some dominant colour has
\* g > r and g > b, and edgeCount
sceneType(brightness, greenDominant, edgeCount) ==
    IF RatLess(Rat(6, 10), brightness) /\ greenDominant
    THEN [type |-> "outdoor", confidence |-> Rat(7, 10)]
    ELSE IF RatLess(brightness, Rat(4, 10)) \/ RatLess(Rat(3, 10), edgeCount)
    THEN [type |-> "indoor", confidence |-> Rat(6, 10)]
    ELSE IF RatLess(edgeCount, Rat(1, 10))
    THEN [type |-> "close-up", confidence |-> Rat(8, 10)]
    ELSE IF RatLess(Rat(4, 10), edgeCount)
    THEN [type |-> "wide", confidence |-> Rat(7, 10)]
    ELSE [type |-> "medium", confidence |-> Rat(5, 10)]

\* brightness and edge density are fractions between 0 and 1
UnitValues == {Rat(k, SceneDen) : k \in 0..SceneDen}

\* a call of classifyScene on a frame with these three values
ClassifyScene(brightness, greenDominant, edgeCount) ==
    /\ NoCall
    /\ fnCall' = [fn |-> "classifyScene", brightness |-> brightness,
                  greenDominant |-> greenDominant, edgeCount |-> edgeCount]
    /\ fnResult' = sceneType(brightness, greenDominant, edgeCount)
    /\ UNCHANGED <<procVars, engVars, svcVars>>

NextClassify ==
    NoCall /\ \E brightness \in UnitValues, greenDominant \in BOOLEAN,
                 edgeCount \in UnitValues :
                 ClassifyScene(brightness, greenDominant, edgeCount)

SpecClassify == InitVideo /\ [][NextClassify]_vars

(***************************************************************************)
(* Part IV.  BaseService with abstract hooks and its listeners             *)
(*                                                                         *)
(* A service whose doInit, doStart, doStop and doDestroy are not known:    *)
(* each returns a promise that is resolved or rejected later.  The fields  *)
(* isInitialized and isStarted and the suspended calls are those of Part   *)
(* II.  One action is the code between two awaits, as there.               *)
(***************************************************************************)
SvcState ==
    [isInitialized |-> isInitialized, isStarted |-> isStarted,
     listeners |-> listeners, calls |-> calls, lastEmit |-> lastEmit,
     outcome |-> outcome, hist |-> hist]

\* the other fields of the engines, which a plain service does not have
engRest == <<kind, canvas, ctx, audioContext, workletNode,
             workletModuleLoaded, processingQueue, isProcessing, reqs,
             startedLog, lifeEvent, enqueued, lastStartBy, canvasSize,
             thumbs>>

\* the next state of the service is the record s
SvcBecomes(s) ==
    /\ UNCHANGED <<procVars, fnVars, engRest>>
    /\ isInitialized' = s.isInitialized
    /\ isStarted' = s.isStarted
    /\ listeners' = s.listeners
    /\ calls' = s.calls
    /\ lastEmit' = s.lastEmit
    /\ outcome' = s.outcome
    /\ hist' = s.hist

\* the listener functions of the model; the listeners of Throwing throw
\* whenever they are invoked
Listeners == 1..MaxListeners
Throwing == {l \in Listeners : l % 2 = 0}

\* an element of a listener Set: the function, and the number of destroys
\* that had succeeded when it was added
Registration(fn, at) == [fn |-> fn, at |-> at]

\* on(eventType, listener): Set.add keeps a function that is already there
svcOn(s, type, fn) ==
    IF \E k \in DOMAIN s.listeners[type] : s.listeners[type][k].fn = fn
    THEN s
    ELSE [s EXCEPT !.listeners[type] =
                       Append(@, Registration(fn, s.hist.destroys))]

\* off(eventType, listener)
svcOff(s, type, fn) ==
    [s EXCEPT !.listeners[type] = SelectSeq(@, LAMBDA reg : reg.fn # fn)]

\* one call of a listener by emit
Invocation(reg, key) ==
    [fn |-> reg.fn, at |-> reg.at, key |-> key, threw |-> reg.fn \in Throwing]

\* the calls forEach makes on the Set of key, in its order; try / catch
\* around each call keeps the loop going after a listener that throws
invokeAll(s, key) ==
    [k \in DOMAIN s.listeners[key] |-> Invocation(s.listeners[key][k], key)]

RECURSIVE untilThrow(_, _)
\* the invocations of s up to the first one that throws, from k on
untilThrow(invs, k) ==
    IF k > Len(invs) THEN <<>>
    ELSE IF invs[k].threw THEN <<invs[k]>>
    ELSE <<invs[k]>> \o untilThrow(invs, k + 1)

\* what emit has done: the listeners of the type, then those of '*'
Emitted(s, type, stage, invoked, escaped) ==
    [s EXCEPT !.lastEmit = [type |-> type, stage |-> stage,
                            invoked |-> invoked, escaped |-> escaped,
                            destroys |-> s.hist.destroys,
                            \* tick changes with every call of emit
                            tick |-> 1 - s.lastEmit.tick],
              !.hist.initialized = IF type = "initialized" THEN @ + 1 ELSE @]

\* emit without try / catch around the call of a listener: the first
\* listener that throws ends emit and the exception leaves it
svcEmit_noCatch(s, type, stage) ==
    LET all == invokeAll(s, type) \o invokeAll(s, "*")
        invoked == untilThrow(all, 1)
    IN Emitted(s, type, stage, invoked,
               invoked # <<>> /\ invoked[Len(invoked)].threw)

\* emit(eventType, data); stage is the stage of the data of an error event
svcEmit(s, type, stage) ==
    Emitted(s, type, stage, invokeAll(s, type) \o invokeAll(s, "*"), FALSE)

(* ---------------- lifecycle of the service ---------------- *)

\* the two flags
Flags(s) == <<s.isInitialized, s.isStarted>>

\* a lifecycle call of the service: op is the public method ("auto" is the
\* constructor's init().then(start)), pc the await it is suspended at,
\* before the flags when it was called
SvcCall(op, pc, before) == [op |-> op, pc |-> pc, before |-> before]
svcPc(s, c, pc) == [s EXCEPT !.calls[c].pc = pc]

\* the call returns: its promise is resolved
svcReturned(s, c) ==
    dropCall([s EXCEPT !.outcome =
                  [op |-> s.calls[c].op, result |-> "returned", hook |-> "",
                   event |-> NoEmit, before |-> s.calls[c].before,
                   atThrow |-> Flags(s), after |-> Flags(s)]], c)

\* the catch block of the method of hook: emit('error', {error, stage});
\* throw error.  The rejection passes through the await of a method that
\* called this one (start through init, destroy through stop), which has
\* no catch around that await
svcThrew(s, c, hook, stage) ==
    LET s1 == svcEmit(s, "error", stage) IN
    dropCall([s1 EXCEPT !.outcome =
                  [op |-> s.calls[c].op, result |-> "threw", hook |-> hook,
                   event |-> s1.lastEmit, before |-> s.calls[c].before,
                   atThrow |-> Flags(s), after |-> Flags(s1)]], c)

\* the catch block that names the stage of stop for every hook
svcCatch_stageStop(s, c, hook) == svcThrew(s, c, hook, "stop")

\* the catch blocks of init, start, stop and destroy
svcCatch(s, c, hook) ==
    svcThrew(s, c, hook,
             CASE hook = "doInit" -> "initialization"
               [] hook = "doStart" -> "start"
               [] hook = "doStop" -> "stop"
               [] hook = "doDestroy" -> "destroy")

\* destroy() that keeps the listeners
clearListeners_keep(s) == s

\* this.listeners.clear()
clearListeners(s) == [s EXCEPT !.listeners = NoListeners]

\* init() past its guard: doInit is called and awaited
svcInitBody(s, c) ==
    svcPc([s EXCEPT !.hist.doInit = @ + 1], c, "doInit")

\* start() from its isStarted guard on
svcStartBody(s, c) ==
    IF s.isStarted THEN svcReturned(s, c) ELSE svcPc(s, c, "doStart")

\* start() from its beginning
svcStart(s, c) ==
    IF ~s.isInitialized THEN svcInitBody(s, c) ELSE svcStartBody(s, c)

\* destroy() from its beginning
svcDestroy(s, c) ==
    IF s.isStarted THEN svcPc(s, c, "doStop") ELSE svcPc(s, c, "doDestroy")

\* the continuation of call c at its await; ok: the awaited promise of the
\* hook is resolved, not rejected
svcResume(s, c, ok) ==
    LET pc == s.calls[c].pc
        op == s.calls[c].op
    IN
    CASE pc = "doInit" ->
           IF ~ok THEN svcCatch(s, c, "doInit")
           ELSE LET s1 == svcEmit([s EXCEPT !.isInitialized = TRUE],
                                  "initialized", "")
                IN IF op = "init" THEN svcReturned(s1, c)
                   ELSE svcPc(s1, c, "afterInit")
      [] pc = "afterInit" ->
           \* the promise of init() is resolved: start() goes on behind its
           \* await; the constructor's then() calls start()
           IF op = "auto" THEN svcStart(s, c) ELSE svcStartBody(s, c)
      [] pc = "doStart" ->
           IF ~ok THEN svcCatch(s, c, "doStart")
           ELSE svcReturned(svcEmit([s EXCEPT !.isStarted = TRUE],
                                    "started", ""), c)
      [] pc = "doStop" ->
           IF ~ok THEN svcCatch(s, c, "doStop")
           ELSE LET s1 == svcEmit([s EXCEPT !.isStarted = FALSE],
                                  "stopped", "")
                IN IF op = "stop" THEN svcReturned(s1, c)
                   ELSE svcPc(s1, c, "afterStop")
      [] pc = "afterStop" ->
           \* the promise of stop() is resolved: destroy() enters its try
           svcPc(s, c, "doDestroy")
      [] pc = "doDestroy" ->
           IF ~ok THEN svcCatch(s, c, "doDestroy")
           ELSE LET s1 == svcEmit([s EXCEPT !.isInitialized = FALSE],
                                  "destroyed", "")
                IN svcReturned([clearListeners(s1) EXCEPT
                                          !.hist.destroys = @ + 1,
                                          !.hist.doInit = 0,
                                          !.hist.initialized = 0], c)

\* a new call record is appended and the code of the call runs to its await
svcNewCall(s, op) ==
    [s EXCEPT !.calls = Append(@, SvcCall(op, "called", Flags(s))),
              !.hist.calls = @ + 1]

\* init()
SvcInit ==
    /\ kind = "service"
    /\ hist.calls < MaxSvcCalls
    /\ LET s == svcNewCall(SvcState, "init")
           c == Len(s.calls)
       IN SvcBecomes(IF s.isInitialized THEN svcReturned(s, c)
                     ELSE svcInitBody(s, c))

\* start()
SvcStart ==
    /\ kind = "service"
    /\ hist.calls < MaxSvcCalls
    /\ LET s == svcNewCall(SvcState, "start")
       IN SvcBecomes(svcStart(s, Len(s.calls)))

\* stop()
SvcStop ==
    /\ kind = "service"
    /\ hist.calls < MaxSvcCalls
    /\ LET s == svcNewCall(SvcState, "stop")
           c == Len(s.calls)
       IN SvcBecomes(IF ~s.isStarted THEN svcReturned(s, c)
                     ELSE svcPc(s, c, "doStop"))

\* destroy()
SvcDestroy ==
    /\ kind = "service"
    /\ hist.calls < MaxSvcCalls
    /\ LET s == svcNewCall(SvcState, "destroy")
       IN SvcBecomes(svcDestroy(s, Len(s.calls)))

\* an awaited promise of call c settles and the call continues; the
\* promises of init() and stop() that start() and destroy() wait for are
\* resolved when they get here
SvcResume(c, ok) ==
    /\ kind = "service"
    /\ c \in 1..Len(calls)
    /\ calls[c].pc \in {"afterInit", "afterStop"} => ok
    /\ SvcBecomes(svcResume(SvcState, c, ok))

\* on(eventType, listener)
SvcOn(type, fn) ==
    /\ kind = "service"
    /\ hist.ons < MaxOns
    /\ SvcBecomes([svcOn(SvcState, type, fn) EXCEPT !.hist.ons = @ + 1])

\* off(eventType, listener) of a listener that is registered
SvcOff(type, fn) ==
    /\ kind = "service"
    /\ hist.ons < MaxOns
    /\ \E k \in DOMAIN listeners[type] : listeners[type][k].fn = fn
    /\ SvcBecomes([svcOff(SvcState, type, fn) EXCEPT !.hist.ons = @ + 1])

\* the types listeners are registered for in the model
OnTypes == {"initialized", "destroyed", "*"}

\* new Service(options): with autoStart the constructor has called init(),
\* which waits for doInit
InitService ==
    /\ InitProc
    /\ NoCall
    /\ kind = "service"
    /\ isInitialized = FALSE
    /\ isStarted = FALSE
    /\ canvas = FALSE
    /\ ctx = FALSE
    /\ audioContext = "none"
    /\ workletNode = FALSE
    /\ workletModuleLoaded = FALSE
    /\ processingQueue = <<>>
    /\ isProcessing = FALSE
    /\ reqs = <<>>
    /\ startedLog = <<>>
    /\ lifeEvent = NoEvent
    /\ enqueued = <<>>
    /\ lastStartBy = ""
    /\ canvasSize = NoCanvasSize
    /\ thumbs = <<>>
    /\ listeners = NoListeners
    /\ lastEmit = NoEmit
    /\ outcome = NoOutcome
    /\ \E autoStart \in BOOLEAN :
          /\ calls = IF autoStart
                     THEN <<SvcCall("auto", "doInit", <<FALSE, FALSE>>)>>
                     ELSE <<>>
          /\ hist = [NoHist EXCEPT !.doInit = IF autoStart THEN 1 ELSE 0]

NextService ==
    \/ SvcInit
    \/ SvcStart
    \/ SvcStop
    \/ SvcDestroy
    \/ \E c \in 1..(MaxSvcCalls + 1), ok \in BOOLEAN : SvcResume(c, ok)
    \/ \E type \in OnTypes, fn \in Listeners : SvcOn(type, fn)
    \/ \E type \in OnTypes, fn \in Listeners : SvcOff(type, fn)

\* one service with abstract hooks
SpecService == InitService /\ [][NextService]_vars

(***************************************************************************)
(* Claims about the processing queue of VideoEngine / AudioEngine          *)
(***************************************************************************)

\* s is a prefix of t
IsPrefix(s, t) == Len(s) <= Len(t) /\ s = SubSeq(t, 1, Len(s))

\* the ids of all analyze calls made so far
Requests == 1..Len(reqs)

\* the requests analysis-started has been emitted for
Started == {startedLog[k] : k \in 1..Len(startedLog)}

\* the requests waiting in processingQueue
Queued == {processingQueue[k] : k \in 1..Len(processingQueue)}

\* C1: at most one request is inside performVideoAnalysis / performAnalysis
\* at any time, under any interleaving of analyze calls, lifecycle calls and
\* completions.
C1_SingleFlight == Cardinality(InFlight(EngState)) <= 1

\* C2 as stated: the k-th analysis-started event belongs to the k-th request
\* enqueued.
C2_KthStartedIsKthEnqueued ==
    \A k \in 1..Len(startedLog) : startedLog[k] = enqueued[k]

\* C2, amended: analysis-started events fire in the order of the analyze
\* calls (the started requests are in strictly increasing enqueue order), no
\* request waiting in the queue was enqueued before a started one, and the
\* queue holds its requests in enqueue order; a request that stop() or
\* destroy() removed from the queue is never started.
C2_StartedInEnqueueOrder ==
    /\ \A j, k \in 1..Len(startedLog) :
          j < k => startedLog[j] < startedLog[k]
    /\ \A q \in Queued, r \in Started : r < q
    /\ \A j, k \in 1..Len(processingQueue) :
          j < k => processingQueue[j] < processingQueue[k]
    /\ \A r \in Requests :
          (reqs[r].stage = "queued" /\ r \notin Queued) => r \notin Started

\* request 2 was removed from the queue by stop() or destroy() while request
\* 1 was in flight, and request 3, enqueued later, has been started
C2_Witness ==
    /\ enqueued = <<1, 2, 3>>
    /\ startedLog = <<1, 3>>
    /\ reqs[2].stage = "queued"

\* C3: in the step in which an in-flight request's promise is settled,
\* resolved or rejected, while the queue is not empty, the oldest request of
\* the queue is taken from it and started (analysis-started is emitted for
\* it) in that same step.
C3_QueueAdvance ==
    [][\A r \in Requests :
          (/\ r \in InFlight(EngState)
           /\ reqs[r].promise = "pending"
           /\ reqs'[r].promise # "pending"
           /\ processingQueue # <<>>)
          => LET n == Head(processingQueue) IN
             /\ processingQueue' = Tail(processingQueue)
             /\ startedLog' = Append(startedLog, n)
             /\ reqs'[n].stage \in {"loading", "running"}
             /\ isProcessing']_vars

\* request 1 was rejected, request 2, started by the finally block after it,
\* was resolved, and request 3 has been started by the finally block
C3_Witness ==
    /\ startedLog = <<1, 2, 3>>
    /\ reqs[1].promise = "rejected" /\ reqs[1].stage = "finished"
    /\ reqs[2].promise = "resolved"
    /\ lastStartBy = "finally"
    /\ 3 \in InFlight(EngState)

\* C4: a request in which loading, frame extraction or a sub-analysis failed
\* has its promise rejected with that error, has no analysis-complete event
\* and was started once only.
C4_FailFast ==
    \A r \in Requests :
        reqs[r].failure # "" =>
            /\ reqs[r].promise = "rejected"
            /\ reqs[r].error = reqs[r].failure
            /\ \A k \in 1..Len(reqs[r].events) :
                  reqs[r].events[k].type # "analysis-complete"
            /\ Cardinality({k \in 1..Len(startedLog) : startedLog[k] = r}) = 1

\* C5: for a request whose analysis failed and whose promise was rejected an
\* error event was emitted.
C5_ErrorEventOnFailure ==
    \A r \in Requests :
        (reqs[r].failure # "" /\ reqs[r].promise = "rejected") =>
            \E k \in 1..Len(reqs[r].events) : reqs[r].events[k].type = "error"

\* the events of a successful video request, oldest first
ExpectedEvents ==
    <<Event("analysis-started", 0, 0, "")>>
    \o [k \in 1..FrameCount |-> Event("frame-extracted", k, FrameCount, "")]
    \o <<Event("analysis-complete", 0, 0, "")>>

\* C6: the events of a video request are at any time a prefix of
\* analysis-started, frame-extracted 1 .. FrameCount (total FrameCount),
\* analysis-complete, and all of them have been emitted when the caller's
\* promise is resolved.
C6_EventOrder ==
    kind = "video" =>
        \A r \in Requests :
            /\ IsPrefix(reqs[r].events, ExpectedEvents)
            /\ reqs[r].promise = "resolved" => reqs[r].events = ExpectedEvents

\* a resolved video request, with all its events emitted
C6_Witness ==
    /\ kind = "video"
    /\ \E r \in Requests :
          /\ reqs[r].promise = "resolved"
          /\ Len(reqs[r].events) = FrameCount + 2

\* the steps of a complete extraction: seek i, seeked i, capture i for
\* i = 0 .. FrameCount - 1
ExpectedXlog ==
    [k \in 1..(3 * FrameCount) |->
        XStep(<<"seek", "seeked", "capture">>[((k - 1) % 3) + 1], (k - 1) \div 3)]

\* C7: the seek of step i + 1 is issued only after the seeked event of step
\* i arrived and frame i was captured; frames holds the frames 0, 1, ... in
\* index order, and FrameCount of them when extractFrames has returned.
C7_SerializedExtraction ==
    \A r \in Requests :
        /\ IsPrefix(reqs[r].xlog, ExpectedXlog)
        /\ reqs[r].frames = [k \in 1..Len(reqs[r].frames) |-> k - 1]
        /\ (reqs[r].promise = "resolved" \/ reqs[r].failure = "analysis")
              => (kind = "video" => Len(reqs[r].frames) = FrameCount)

\* an extraction that ran through all its steps
C7_Witness ==
    \E r \in Requests :
        /\ reqs[r].xlog = ExpectedXlog
        /\ Len(reqs[r].frames) = FrameCount
        /\ reqs[r].stage = "finished"

(***************************************************************************)
(* Claims about analyzeAudio                                               *)
(***************************************************************************)

\* C17: analyzeAudio on an AudioEngine that is not started and has no
\* lifecycle call in progress (never started, stopped, or destroyed) is
\* refused with an error and leaves processingQueue and isProcessing as they
\* were.
C17_NotStartedRefused ==
    [][(/\ kind = "audio"
        /\ ~isStarted
        /\ calls = <<>>
        /\ Len(reqs') = Len(reqs) + 1)
       => /\ reqs'[Len(reqs')].stage = "refused"
          /\ reqs'[Len(reqs')].promise = "rejected"
          /\ processingQueue' = processingQueue
          /\ isProcessing' = isProcessing]_vars

(***************************************************************************)
(* Claims about analyzeScenes                                              *)
(***************************************************************************)

\* analyzeScenes has returned
ScenesReturned == fnCall # Nothing /\ fnCall.fn = "analyzeScenes"

\* the pairs (i - 1, i) of frames, in the source's indices, whose difference
\* intensity exceeds the threshold
Cuts(frames) ==
    {i \in 1..(Len(frames) - 1) :
        RatLess(SceneThreshold, computeFrameDifference(frames[i], frames[i + 1]))}

\* the duration of a scene
SceneLength(sc) == RatSub(sc.end, sc.start)

\* C12: for at least one frame and a duration > 0 the scene list is not
\* empty, its first scene starts at 0, each scene starts where the one
\* before it ends, every scene has start < end, and the last scene ends at
\* the duration.
C12_ScenesPartition ==
    (ScenesReturned /\ fnCall.duration > 0) =>
        LET sc == fnResult IN
        /\ Len(sc) >= 1
        /\ RatEq(sc[1].start, Rat(0, 1))
        /\ \A k \in 2..Len(sc) : RatEq(sc[k].start, sc[k - 1].end)
        /\ \A k \in 1..Len(sc) : RatLess(sc[k].start, sc[k].end)
        /\ RatEq(sc[Len(sc)].end, Rat(fnCall.duration, 1))

\* a call with several scene changes
C12_Witness ==
    /\ ScenesReturned
    /\ fnCall.duration > 0
    /\ Len(fnResult) >= 3

\* C13: when exactly one pair of consecutive frames, (i - 1, i), exceeds the
\* threshold, there are exactly two scenes, split at i * duration / n, and
\* their durations sum to the duration.
C13_OneStepTwoScenes ==
    (ScenesReturned /\ fnCall.duration > 0) =>
        \A i \in Cuts(fnCall.frames) :
            Cuts(fnCall.frames) = {i} =>
                LET sc == fnResult
                    at == Rat(i * fnCall.duration, Len(fnCall.frames))
                IN /\ Len(sc) = 2
                   /\ RatEq(sc[1].start, Rat(0, 1)) /\ RatEq(sc[1].end, at)
                   /\ RatEq(sc[2].start, at)
                   /\ RatEq(sc[2].end, Rat(fnCall.duration, 1))
                   /\ RatEq(RatAdd(SceneLength(sc[1]), SceneLength(sc[2])),
                            Rat(fnCall.duration, 1))

\* one step change, at a frame that is neither the first nor the last, with
\* a change below the threshold elsewhere
C13_Witness ==
    /\ ScenesReturned
    /\ fnCall.duration > 1
    /\ Len(fnCall.frames) = 4
    /\ Cuts(fnCall.frames) = {2}
    /\ fnCall.frames[1] # fnCall.frames[2]
    /\ Len(fnResult) = 2

\* every pixel of the frame has gray level v
Solid(frame, v) == \A k \in DOMAIN frame.data : frame.data[k] = Gray(v)

\* C14: when one frame b, neither the first nor the last, is solid black and
\* all others are solid white, there is exactly one scene boundary (two
\* scenes), at frame b's timestamp b * duration / n.
C14_OneBlackFrameOneBoundary ==
    (ScenesReturned /\ fnCall.duration > 0) =>
        LET frames == fnCall.frames
            n == Len(frames)
        IN \A b \in 1..(n - 2) :
              (\A j \in 0..(n - 1) :
                  Solid(frames[j + 1], IF j = b THEN 0 ELSE 255))
              => /\ Len(fnResult) = 2
                 /\ RatEq(fnResult[1].end, Rat(b * fnCall.duration, n))

(***************************************************************************)
(* Claims about estimateTempo                                              *)
(***************************************************************************)

\* estimateTempo has returned
TempoReturned == fnCall # Nothing /\ fnCall.fn = "estimateTempo"

\* C15: for every list of onsets the returned bpm is between 30 and 300 and
\* the confidence between 0 and 1.
C15_TempoRange ==
    TempoReturned =>
        /\ fnResult.bpm >= 30 /\ fnResult.bpm <= 300
        /\ ~RatLess(fnResult.confidence, Rat(0, 1))
        /\ ~RatLess(Rat(1, 1), fnResult.confidence)

\* onsets at 0, 0.21 s, 2 s and 2.5 s: the first interval, the shortest the
\* range admits, sets the tempo, with one of three intervals behind it
C15_Witness ==
    /\ TempoReturned
    /\ fnCall.onsets = <<0, 84, 800, 1000>>
    /\ fnResult.bpm = 286
    /\ RatEq(fnResult.confidence, Rat(1, 3))

\* C16: with fewer than 4 onsets the result is bpm 120 with confidence 0 and
\* no histogram is built.
C16_FewOnsetsDefault ==
    (TempoReturned /\ Len(fnCall.onsets) < 4) =>
        /\ fnResult.bpm = 120
        /\ RatEq(fnResult.confidence, Rat(0, 1))
        /\ fnResult.histogram = <<>>

\* three onsets a regular 0.21 s apart, which a histogram would turn into
\* another tempo
C16_Witness ==
    /\ TempoReturned
    /\ fnCall.onsets = <<0, 84, 0>>
    /\ fnResult.bpm = 120

(***************************************************************************)
(* Claims about analyzeMotion                                              *)
(***************************************************************************)

\* analyzeMotion has returned
MotionReturned == fnCall # Nothing /\ fnCall.fn = "analyzeMotion"

\* C18: a single frame gives intensity 0, direction and classification
\* static, and no pair is compared; a sequence of two or more identical
\* frames gives intensity 0 for every pair, intensity 0 and classification
\* static.
C18_StillIsStatic ==
    MotionReturned =>
        LET frames == fnCall.frames IN
        /\ Len(frames) = 1 =>
              /\ RatEq(fnResult.intensity, Rat(0, 1))
              /\ fnResult.direction = "static"
              /\ fnResult.classification = "static"
              /\ fnResult.pairs = 0
        /\ (Len(frames) >= 2 /\ \A k \in 2..Len(frames) : frames[k] = frames[1]) =>
              /\ \A k \in 2..Len(frames) :
                    RatEq(computeFrameDifference(frames[k - 1], frames[k]),
                          Rat(0, 1))
              /\ RatEq(fnResult.intensity, Rat(0, 1))
              /\ fnResult.classification = "static"
              /\ fnResult.pairs = Len(frames) - 1

\* three identical frames were compared pair by pair
C18_Witness ==
    /\ MotionReturned
    /\ Len(fnCall.frames) = 3
    /\ fnCall.frames[2] = fnCall.frames[1] /\ fnCall.frames[3] = fnCall.frames[1]
    /\ fnResult.pairs = 2
    /\ fnResult.classification = "static"

(***************************************************************************)
(* Claims about the TimeShaperProcessor                                    *)
(***************************************************************************)

C9_TimestampIsSamplesOverRate ==
    nSetParams = 0 =>
        \A k \in 1..Len(FeatureMsgs) :
            RatEq(FeatureMsgs[k].timestamp, Rat(fillSamples[k], SampleRate))

\* C10: the first fill reports flux 0; every later fill reports the flux of
\* its spectrum against the spectrum of the fill just before it; the stored
\* spectrum is undefined before the first fill and the spectrum of the last
\* fill afterwards.
C10_FluxTracker ==
    /\ Len(FeatureMsgs) = Len(fillSpectra)
    /\ \A k \in 1..Len(fillSpectra) :
          FeatureMsgs[k].features.spectralFlux =
              IF k = 1 THEN Rat(0, 1)
              ELSE Rat(PositiveDiffSum(fillSpectra[k], fillSpectra[k - 1]),
                       Len(fillSpectra[k]))
    /\ prevSpectrum = IF fillSpectra = <<>> THEN NoSpectrum
                      ELSE Held(fillSpectra[Len(fillSpectra)])

\* a second fill whose spectrum rose above the first one's
C10_Witness ==
    /\ Len(fillSpectra) >= 2
    /\ FeatureMsgs[1].features.spectralFlux[1] = 0
    /\ FeatureMsgs[2].features.spectralFlux[1] > 0
    /\ prevSpectrum = Held(fillSpectra[2])
    /\ fillSpectra[2] # fillSpectra[1]

\* C11: a set-parameters message overwrites exactly the fields its data
\* names, with the value given, whatever the value; every other field and
\* the port are left as they were.
C11_SetParametersMerge ==
    [][nSetParams' # nSetParams =>
          /\ bufferSize' = (IF lastParams'.bufferSize = NoValue THEN bufferSize
                            ELSE lastParams'.bufferSize)
          /\ bufferIndex' = (IF lastParams'.bufferIndex = NoValue
                             THEN bufferIndex ELSE lastParams'.bufferIndex)
          /\ frameCount' = (IF lastParams'.frameCount = NoValue THEN frameCount
                            ELSE lastParams'.frameCount)
          /\ UNCHANGED <<buffer, prevSpectrum, analysisActive, port>>]_vars

\* a message that names bufferSize and an out-of-range bufferIndex, not
\* frameCount, was handled after at least one process() call
C11_Witness ==
    /\ nSetParams = 1
    /\ lastParams.bufferSize = 1 /\ bufferSize = 1
    /\ lastParams.bufferIndex = BufSize /\ bufferIndex = BufSize
    /\ lastParams.frameCount = NoValue /\ frameCount > 0

(***************************************************************************)
(* Claims about analyzeColor                                               *)
(***************************************************************************)

\* analyzeColor has returned
ColorReturned == fnCall # Nothing /\ fnCall.fn = "analyzeColor"

\* every pixel of the frame is rgb(255,0,0)
SolidRed(frame) == \A k \in DOMAIN frame.data : frame.data[k] = Red

\* C19: for 5 identical solid-red frames every entry of dominantColors is
\* rgb(255,0,0).
C19_SolidRedDominant ==
    (/\ ColorReturned
     /\ Len(fnCall.frames) = 5
     /\ \A k \in 1..5 : SolidRed(fnCall.frames[k])) =>
        \A j \in DOMAIN fnResult.dominantColors :
            fnResult.dominantColors[j] = rgbString(255, 0, 0)

(***************************************************************************)
(* Claims about computeSharpness and computeNoise                          *)
(***************************************************************************)

\* a frame has been assessed
QualityReturned == fnCall # Nothing /\ fnCall.fn = "analyzeQuality"

\* 0 <= p <= 1
InUnit(p) == ~RatLess(p, Rat(0, 1)) /\ ~RatLess(Rat(1, 1), p)

\* C20: the sharpness and the noise of every frame lie in [0, 1].
C20_SharpnessNoiseInUnit ==
    QualityReturned => InUnit(fnResult.sharpness) /\ InUnit(fnResult.noise)
(***************************************************************************)
(* Claims about analyzeMood                                                *)
(***************************************************************************)

\* analyzeMood has returned
MoodReturned == fnCall # Nothing /\ fnCall.fn = "analyzeMood"

\* the rules of the mood category in their order of priority
MoodRules(v, a) ==
    << <<RatLess(Rat(6, 10), v) /\ RatLess(Rat(6, 10), a), "happy">>,
       <<RatLess(v, Rat(4, 10)) /\ RatLess(a, Rat(4, 10)), "sad">>,
       <<RatLess(Rat(7, 10), a), "energetic">>,
       <<RatLess(a, Rat(3, 10)), "calm">>,
       <<RatLess(v, Rat(4, 10)), "dramatic">>,
       <<TRUE, "peaceful">> >>

\* C21: valence and arousal lie in [0, 1] and the category is that of the
\* first rule that matches them.
C21_MoodFirstMatch ==
    MoodReturned =>
        LET rules == MoodRules(fnResult.valence, fnResult.arousal) IN
        /\ InUnit(fnResult.valence) /\ InUnit(fnResult.arousal)
        /\ \E k \in DOMAIN rules :
              /\ rules[k][1]
              /\ \A j \in 1..(k - 1) : ~rules[j][1]
              /\ fnResult.category = rules[k][2]

\* valence 0.2 and arousal 0.2 match sad, calm and dramatic; sad is first
C21_Witness ==
    /\ MoodReturned
    /\ RatEq(fnResult.valence, Rat(2, 10))
    /\ RatEq(fnResult.arousal, Rat(2, 10))
    /\ fnResult.category = "sad"
(***************************************************************************)
(* Further claims about analyzeMotion                                      *)
(***************************************************************************)

\* C29: in every MotionAnalysis returned, direction is static if and only
\* if classification is static.
C29_StaticDirectionIffStaticClass ==
    MotionReturned =>
        (fnResult.direction = "static" <=> fnResult.classification = "static")

\* black then dark gray: intensity 64 / 255, between the thresholds 0.1 and
\* 0.3, so neither the direction nor the classification is static
C29_Witness ==
    /\ MotionReturned
    /\ Len(fnCall.frames) = 2
    /\ RatEq(fnResult.intensity, Rat(64, 255))
    /\ fnResult.direction # "static"
    /\ fnResult.classification = "low"
(***************************************************************************)
(* Claims about classifyScene                                              *)
(***************************************************************************)

\* the five scene types
SceneTypes == {"outdoor", "indoor", "close-up", "wide", "medium"}

\* classifyScene has returned
ClassifyReturned == fnCall # Nothing /\ fnCall.fn = "classifyScene"

\* C30: each of the five scene types is returned by classifyScene for at
\* least one combination of brightness, green-dominance and edge density.
C30_EverySceneTypeReturned ==
    ClassifyReturned =>
        \A type \in SceneTypes :
            \E brightness \in UnitValues, greenDominant \in BOOLEAN,
               edgeCount \in UnitValues :
                sceneType(brightness, greenDominant, edgeCount).type = type
(***************************************************************************)
(* Claims about BaseService                                                *)
(***************************************************************************)

\* the stage an error event names for each hook
StageOf(hook) ==
    CASE hook = "doInit" -> "initialization"
      [] hook = "doStart" -> "start"
      [] hook = "doStop" -> "stop"
      [] hook = "doDestroy" -> "destroy"

\* a lifecycle call has ended by throwing
CallThrew == outcome.result = "threw"

\* C22 as claimed: when a hook throws, the call emits an error event with
\* the stage of the hook, rethrows, and isInitialized and isStarted are as
\* they were before the call.
C22_ThrowLeavesFlagsAsBeforeCall ==
    CallThrew =>
        /\ outcome.event.type = "error"
        /\ outcome.event.stage = StageOf(outcome.hook)
        /\ outcome.after = outcome.before

\* C22 as amended: when a hook throws, the call emits an error event with
\* the stage of the hook, rethrows, and handling the rejection changes
\* neither isInitialized nor isStarted.
C22_ThrowChangesNoFlag ==
    CallThrew =>
        /\ outcome.event.type = "error"
        /\ outcome.event.stage = StageOf(outcome.hook)
        /\ outcome.after = outcome.atThrow

\* start() on a new service initialised it, then doStart threw
C22_Witness ==
    /\ CallThrew
    /\ outcome.op = "start"
    /\ outcome.hook = "doStart"
    /\ outcome.event.stage = "start"
    /\ outcome.before = <<FALSE, FALSE>>
    /\ outcome.after = <<TRUE, FALSE>>

\* C24: in every reachable state of a service isStarted implies
\* isInitialized.
C24_StartedImpliesInitialized ==
    kind = "service" => (isStarted => isInitialized)

\* C25: since the last destroy doInit has run at most once and initialized
\* was emitted at most once.
C25_InitAtMostOnce ==
    kind = "service" => (hist.doInit <= 1 /\ hist.initialized <= 1)

\* the invocations emit made for the listeners of key
InvokedFor(emitted, key) == SelectSeq(emitted.invoked, LAMBDA inv : inv.key = key)
\* the functions of a sequence of registrations or invocations, in order
FnsOf(seq) == [k \in DOMAIN seq |-> seq[k].fn]

\* C26: a call of emit invokes every listener registered for the type and
\* then every listener registered for '*', each once, whether or not a
\* listener throws, and no exception leaves emit.
C26_EmitInvokesAll ==
    [][lastEmit'.tick # lastEmit.tick =>
          LET type == lastEmit'.type
              invoked == lastEmit'.invoked
              typed == InvokedFor(lastEmit', type)
              all == InvokedFor(lastEmit', "*")
          IN /\ FnsOf(typed) = FnsOf(listeners[type])
             /\ FnsOf(all) = FnsOf(listeners["*"])
             /\ invoked = typed \o all
             /\ \A k \in DOMAIN invoked :
                   Cardinality({j \in DOMAIN invoked :
                                   /\ invoked[j].fn = invoked[k].fn
                                   /\ invoked[j].key = invoked[k].key}) = 1
             /\ ~lastEmit'.escaped]_vars

\* a listener of the type threw and a listener of '*' was invoked after it
C26_Witness ==
    /\ Len(lastEmit.invoked) = 2
    /\ lastEmit.invoked[1].threw
    /\ lastEmit.invoked[1].key = lastEmit.type
    /\ lastEmit.invoked[2].key = "*"
    /\ ~lastEmit.escaped

\* C27: the destroy that succeeds has emitted destroyed to every listener
\* registered for destroyed or '*' and has left no listener, and every
\* listener an emit invokes was registered after the last successful
\* destroy.
C27_DestroyedThenSilent ==
    [][/\ hist'.destroys # hist.destroys =>
             /\ lastEmit'.type = "destroyed"
             /\ lastEmit'.tick # lastEmit.tick
             /\ \A key \in {"destroyed", "*"} :
                   \A k \in DOMAIN listeners[key] :
                      \E j \in DOMAIN lastEmit'.invoked :
                         /\ lastEmit'.invoked[j].fn = listeners[key][k].fn
                         /\ lastEmit'.invoked[j].key = key
             /\ \A type \in ListenTypes : listeners'[type] = <<>>
       /\ lastEmit'.tick # lastEmit.tick =>
             /\ lastEmit'.destroys = hist.destroys
             /\ \A j \in DOMAIN lastEmit'.invoked :
                   lastEmit'.invoked[j].at = hist.destroys]_vars

\* a destroy has delivered destroyed to a listener of destroyed and to a
\* listener of '*', one of which threw, and no listener is left
C27_Witness ==
    /\ hist.destroys = 1
    /\ lastEmit.type = "destroyed"
    /\ Len(lastEmit.invoked) = 2
    /\ lastEmit.invoked[1].key = "destroyed"
    /\ lastEmit.invoked[2].key = "*"
    /\ \E j \in 1..2 : lastEmit.invoked[j].threw
    /\ listeners = NoListeners
(***************************************************************************)
(* Claims about the canvas of VideoEngine                                  *)
(***************************************************************************)

\* C28: all frames captured by one extractFrames run have the width and
\* height the canvas was given at the start of that run.
C28_FramesHaveRunSize ==
    \A r \in DOMAIN reqs :
        \A k \in DOMAIN reqs[r].sizes : reqs[r].sizes[k] = reqs[r].runSize

(***************************************************************************)
(* Claims about the promises of analyzeVideo / analyzeAudio                *)
(***************************************************************************)

\* an analysis that was started and does not terminate
SomeHung == \E r \in DOMAIN reqs : reqs[r].stage = "hung"

\* the promise of request r has been returned and is not settled
Pending(r) == r \in DOMAIN reqs /\ reqs[r].promise = "pending"

\* the promise of request r is resolved or rejected
Settled(r) == r \in DOMAIN reqs /\ reqs[r].promise # "pending"

\* C23: every promise returned by analyzeVideo or analyzeAudio is
\* eventually resolved or rejected, whatever stop() and destroy() calls
\* come in between, unless an analysis that was started does not terminate.
C23_PromiseEventuallySettled ==
    \A r \in 1..MaxRequests : Pending(r) ~> (Settled(r) \/ SomeHung)

====
